---------------------------- MODULE Spec2Model ----------------------------
(***************************************************************************)
(* Model of jangwonboo/receipt_ocr: the Gemini receipt pipeline            *)
(* (gemini_ocr.py: generate_filename_from_info, extract_info_with_gemini,  *)
(* process_file, process_directory) and the GUI worker's retry loop        *)
(* (ocr_gui.py: OcrWorker.perform_ocr_with_retry, OcrWorker.stop).         *)
(*                                                                         *)
(* Python strings are sequences of one-character strings, so that slicing, *)
(* re.sub, str.lower, str.isdigit and the "in" substring test are computed *)
(* as the code computes them.  Python values are records [t, s, n]:        *)
(* t = "none" | "str" | "int", s the characters of a str, n the int.       *)
(***************************************************************************)
EXTENDS Integers, Sequences, FiniteSets, TLC

(***************************************************************************)
(* Characters and strings                                                  *)
(***************************************************************************)

\* The characters used by the model, in code-point order (str comparison).
CodeOrder ==
    << " ", ",", "-", ".", "/",
       "0", "1", "2", "3", "4", "5", "6", "7", "8", "9",
       "A", "B", "C", "D", "E", "F", "G", "H", "I", "J", "K", "L", "M",
       "N", "O", "P", "Q", "R", "S", "T", "U", "V", "W", "X", "Y", "Z",
       "_",
       "a", "b", "c", "d", "e", "f", "g", "h", "i", "j", "k", "l", "m",
       "n", "o", "p", "q", "r", "s", "t", "u", "v", "w", "x", "y", "z" >>

Chars == {CodeOrder[i] : i \in 1..Len(CodeOrder)}

\* ord(c), as the 1-based rank of c among the model's characters
OrdOf == [c \in Chars |-> CHOOSE i \in 1..Len(CodeOrder) : CodeOrder[i] = c]

Ord(c) == OrdOf[c]

Digits == <<"0", "1", "2", "3", "4", "5", "6", "7", "8", "9">>

IsDigit(c) == Ord("0") <= Ord(c) /\ Ord(c) <= Ord("9")

IsUpper(c) == Ord("A") <= Ord(c) /\ Ord(c) <= Ord("Z")

IsLowerAlpha(c) == Ord("a") <= Ord(c) /\ Ord(c) <= Ord("z")

\* re's \w: letters, digits and the underscore
IsWord(c) == IsDigit(c) \/ IsUpper(c) \/ IsLowerAlpha(c) \/ c = "_"

\* re's \s (the model's only whitespace character is the blank)
IsSpace(c) == c = " "

\* str.lower() of one character: "A".."Z" are 16..41 in CodeOrder, "a".."z" 43..68
LowerChar(c) == IF IsUpper(c) THEN CodeOrder[Ord(c) + 27] ELSE c

Lower(s) == [i \in 1..Len(s) |-> LowerChar(s[i])]

\* s[:n]
Prefix(s, n) == SubSeq(s, 1, IF Len(s) < n THEN Len(s) ELSE n)

\* s[a:b] with 0 <= a <= b (Python slice, clipped to the string)
Slice(s, a, b) == SubSeq(s, a + 1, IF Len(s) < b THEN Len(s) ELSE b)

\* str.isdigit(): non-empty and all digits
AllDigits(s) == Len(s) > 0 /\ \A i \in 1..Len(s) : IsDigit(s[i])

\* str.strip() == "" : only whitespace
IsBlank(s) == \A i \in 1..Len(s) : IsSpace(s[i])

\* int(s) for a digit string
RECURSIVE ToInt(_)
ToInt(s) == IF s = <<>> THEN 0
            ELSE 10 * ToInt(SubSeq(s, 1, Len(s) - 1)) + (Ord(s[Len(s)]) - Ord("0"))

\* str(n) for n >= 0
RECURSIVE IntToStr(_)
IntToStr(n) == IF n < 10 THEN <<Digits[n + 1]>>
               ELSE IntToStr(n \div 10) \o <<Digits[(n % 10) + 1]>>

\* "sub in s"
Contains(s, sub) ==
    \E i \in 0..(Len(s) - Len(sub)) : SubSeq(s, i + 1, i + Len(sub)) = sub

\* s.startswith(p)
StartsWith(s, p) == Len(s) >= Len(p) /\ SubSeq(s, 1, Len(p)) = p

\* "_".join(parts)
RECURSIVE JoinUnderscore(_)
JoinUnderscore(parts) ==
    IF parts = <<>> THEN <<>>
    ELSE IF Len(parts) = 1 THEN parts[1]
    ELSE parts[1] \o <<"_">> \o JoinUnderscore(Tail(parts))

\* lexicographic order of two strings by code point (str.__lt__)
RECURSIVE StrLess(_, _)
StrLess(a, b) ==
    IF b = <<>> THEN FALSE
    ELSE IF a = <<>> THEN TRUE
    ELSE IF Ord(a[1]) # Ord(b[1]) THEN Ord(a[1]) < Ord(b[1])
    ELSE StrLess(Tail(a), Tail(b))

\* sorted(S) for a finite set of strings
RECURSIVE SortedSeq(_)
SortedSeq(S) ==
    IF S = {} THEN <<>>
    ELSE LET m == CHOOSE x \in S : \A y \in S \ {x} : StrLess(x, y)
         IN  <<m>> \o SortedSeq(S \ {m})

(***************************************************************************)
(* Python values                                                           *)
(***************************************************************************)

PyNone == [t |-> "none", s |-> <<>>, n |-> 0]

PyStr(s) == [t |-> "str", s |-> s, n |-> 0]

PyInt(n) == [t |-> "int", s |-> <<>>, n |-> n]

\* a float: n is its integer part, s the digits that repr shows after the point
PyFloat(n, frac) == [t |-> "float", s |-> frac, n |-> n]

NA == <<"N", "A">>

\* bool(v)
Truthy(v) ==
    CASE v.t = "none" -> FALSE
      [] v.t = "str"  -> v.s # <<>>
      [] v.t = "int"  -> v.n # 0
      [] v.t = "float" -> v.n # 0 \/ v.s # <<"0">>

\* v == 'NA'
IsNA(v) == v.t = "str" /\ v.s = NA

\* str(v), as an f-string renders the value
Format(v) ==
    CASE v.t = "none" -> <<"N", "o", "n", "e">>
      [] v.t = "str"  -> v.s
      [] v.t = "int"  -> IntToStr(v.n)
      [] v.t = "float" -> IntToStr(v.n) \o <<".">> \o v.s

\* a key that the dict does not hold
PyAbsent == [t |-> "absent", s |-> <<>>, n |-> 0]

\* d.get(key, default)
DictGet(v, default) == IF v.t = "absent" THEN default ELSE v

(***************************************************************************)
(* gemini_ocr.generate_filename_from_info                                  *)
(***************************************************************************)

PdfExt == <<".", "p", "d", "f">>

ReceiptSuffix == <<"_", "r", "e", "c", "e", "i", "p", "t">>

\* `x and x.lower() != 'na'` raises AttributeError for a truthy non-str x
LowerRaises(v) == Truthy(v) /\ v.t # "str"

\* `x and x.lower() != 'na'` for a value on which it does not raise
Meaningful(v) == Truthy(v) /\ v.t = "str" /\ Lower(v.s) # <<"n", "a">>

KeepWordOrSpace(c) == IsWord(c) \/ IsSpace(c)

UnderscoreForBlank(c) == IF c = " " THEN "_" ELSE c

\* the sanitization without its cut at 30 characters
CleanPlaceNoLimit(s) ==
    LET kept == SelectSeq(s, KeepWordOrSpace)
    IN  [i \in 1..Len(kept) |-> UnderscoreForBlank(kept[i])]

\* re.sub(r'[^\w\s]', '', place) ; place.replace(' ', '_')[:30]
CleanPlace(s) ==
    LET kept == SelectSeq(s, KeepWordOrSpace)
    IN  Prefix([i \in 1..Len(kept) |-> UnderscoreForBlank(kept[i])], 30)

\* the date segment when the year of a YYYYMMDD date is kept whole
DatePartKeepsYear(d) ==
    IF Len(d) >= 8 THEN Prefix(d, 8)
    ELSE IF Len(d) >= 6 THEN Prefix(d, 6)
    ELSE NA

\* the date segment of the filename, for a date string that is not 'na'
DatePart(d) ==
    IF Len(d) >= 8
    THEN IF AllDigits(Prefix(d, 8))
         THEN IF 1900 <= ToInt(Prefix(d, 4)) /\ ToInt(Prefix(d, 4)) <= 2099
              THEN Slice(d, 2, 8)
              ELSE Prefix(d, 8)
         ELSE Prefix(d, 8)
    ELSE IF Len(d) >= 6 THEN Prefix(d, 6)
    ELSE NA

\* [raised |-> TRUE] when the function raises, else the filename it returns
generate_filename_from_info(info, stem) ==
    LET date     == DictGet(info.date, PyStr(NA))
        place0   == DictGet(info.place, PyStr(NA))
        amount   == DictGet(info.amount, PyStr(NA))
        currency == DictGet(info.currency, PyStr(NA))
        place    == IF Meaningful(place0) THEN PyStr(CleanPlace(place0.s)) ELSE place0
        datePart == IF Meaningful(date) THEN <<DatePart(date.s)>> ELSE <<NA>>
        placePart == IF Meaningful(place)
                     THEN <<SelectSeq(place.s, KeepWordOrSpace)>>
                     ELSE <<>>
        hasAmount == amount.t # "none" /\ ~IsNA(amount)
        amountPart == IF hasAmount /\ Truthy(currency) /\ ~IsNA(currency)
                      THEN <<Format(amount) \o <<"_">> \o Format(currency)>>
                      ELSE IF hasAmount THEN <<Format(amount)>>
                      ELSE <<>>
        parts    == datePart \o placePart \o amountPart
    IN  IF LowerRaises(place0) \/ LowerRaises(date)
        THEN [raised |-> TRUE, name |-> <<>>]
        ELSE IF \E i \in 1..Len(parts) : parts[i] # NA
        THEN [raised |-> FALSE, name |-> JoinUnderscore(parts) \o PdfExt]
        ELSE [raised |-> FALSE, name |-> stem \o ReceiptSuffix \o PdfExt]

(***************************************************************************)
(* Paths and the directory                                                 *)
(* A directory is a function from file names to contents; a content is     *)
(* [doc, form]: the receipt the bytes show and "img" or "pdf".             *)
(***************************************************************************)

\* position of the last "." of a name, 0 when there is none
LastDot(name) ==
    LET dots == {i \in 1..Len(name) : name[i] = "."}
    IN  IF dots = {} THEN 0 ELSE CHOOSE i \in dots : \A j \in dots : j <= i

\* Path.suffix: from the last dot, unless the name starts or ends with it
Suffix(name) ==
    LET d == LastDot(name)
    IN  IF d > 1 /\ d < Len(name) THEN SubSeq(name, d, Len(name)) ELSE <<>>

\* Path.stem
Stem(name) == SubSeq(name, 1, Len(name) - Len(Suffix(name)))

\* Path.with_suffix('.pdf')
WithPdfSuffix(name) == Stem(name) \o PdfExt

SUPPORTED_EXTENSIONS ==
    { <<".", "p", "d", "f">>, <<".", "j", "p", "g">>,
      <<".", "j", "p", "e", "g">>, <<".", "p", "n", "g">> }

IMAGE_EXTENSIONS ==
    { <<".", "j", "p", "g">>, <<".", "j", "p", "e", "g">>, <<".", "p", "n", "g">> }

FsRemove(d, n) == [m \in (DOMAIN d) \ {n} |-> d[m]]

FsWrite(d, n, c) == [m \in (DOMAIN d) \cup {n} |-> IF m = n THEN c ELSE d[m]]

\* os.rename(a, b) that succeeds: b is replaced when it exists
FsRename(d, a, b) == IF a = b THEN d ELSE FsWrite(FsRemove(d, a), b, d[a])

(***************************************************************************)
(* gemini_ocr.extract_info_with_gemini                                     *)
(* The upstream answer is an input: "ok" with the parsed JSON object, or a *)
(* failure: "rate_limit" (429), "auth" (401/403), "malformed" (json.loads  *)
(* raises), "client_error" (get_genai_client raises, outside the try).     *)
(***************************************************************************)

NoInfo == [date |-> PyNone, place |-> PyNone, amount |-> PyNone, currency |-> PyNone]

\* [raised, ok, info]: every exception of the call is caught and gives None
extract_info_with_gemini(up) ==
    IF up.kind = "client_error" THEN [raised |-> TRUE, ok |-> FALSE, info |-> NoInfo]
    ELSE IF up.kind = "ok" THEN [raised |-> FALSE, ok |-> TRUE, info |-> up.info]
    ELSE [raised |-> FALSE, ok |-> FALSE, info |-> NoInfo]

(***************************************************************************)
(* gemini_ocr.process_file                                                 *)
(* process_file(d, t, file, up, env, platform): the call on directory d    *)
(* and temp directory t.  up is the upstream answer; env is the one fault  *)
(* the environment injects into this call ("ok" for none): "conv_fail"     *)
(* (image conversion raises), "txt_fail" / "json_fail" (open or write of   *)
(* the artifact raises), "rename_fail" (os.rename raises OSError).         *)
(* platform is "posix" (os.rename replaces an existing target) or "nt"     *)
(* (os.rename raises FileExistsError).                                     *)
(* The value is [fs, tmp, ret, conv_clobbered, clobbered, raised]: the     *)
(* directory and temp directory afterwards, the returned value, the        *)
(* receipts whose file the conversion and the rename overwrote, and        *)
(* whether an exception left the function.                                 *)
(***************************************************************************)

FIELDS == <<"date", "place", "amount", "currency">>

ErrPrefix ==
    <<"F", "a", "i", "l", "e", "d", " ", "t", "o", " ", "e", "x", "t", "r", "a", "c", "t", " ", "i", "n", "f", "o", "r", "m", "a", "t", "i", "o", "n", " ", "f", "r", "o", "m", " ">>

TxtExt == <<".", "t", "x", "t">>

JsonExt == <<".", "j", "s", "o", "n">>

RetNone ==
    [kind |-> "none", msg |-> <<>>, info |-> NoInfo, final_path |-> <<>>,
     missing_fields |-> <<>>]

\* {"error": "Failed to extract information from <file_path>", ...}
RetError(file) ==
    [kind |-> "error", msg |-> ErrPrefix \o file, info |-> NoInfo,
     final_path |-> <<>>, missing_fields |-> <<>>]

RetInfo(info, target, missing) ==
    [kind |-> "info", msg |-> <<>>, info |-> info, final_path |-> target,
     missing_fields |-> missing]

\* bool(ret): None is falsy, a non-empty dict is truthy
RetTruthy(r) == r.kind # "none"

\* "Fill missing fields with 'NA'": None, absent or blank becomes 'NA'
FillNA(v) ==
    IF v.t \in {"none", "absent"} \/ (v.t = "str" /\ IsBlank(v.s))
    THEN PyStr(NA) ELSE v

FillInfo(info) ==
    [date |-> FillNA(info.date), place |-> FillNA(info.place),
     amount |-> FillNA(info.amount), currency |-> FillNA(info.currency)]

\* "Track missing fields": the fields with `not extracted_info.get(field)`
MissingFields(info) ==
    SelectSeq(FIELDS, LAMBDA f : ~Truthy(info[f]))

\* os.rename(src, target) raises
RenameRaises(d, src, target, env, platform) ==
    \/ env = "rename_fail"
    \/ Contains(target, <<"/">>)
    \/ platform = "nt" /\ target \in DOMAIN d /\ target # src

\* mutant of CatchAll: the handler is missing and the exception propagates
CatchNothing(r) == r

\* lines 444-447: `except Exception: ... return None`
CatchAll(r) == IF r.raised THEN [r EXCEPT !.ret = RetNone, !.raised = FALSE] ELSE r

\* lines 348-442: the body of the try block; raised marks an exception
process_file_try(d, t, file, up, env, platform) ==
    LET ext      == Lower(Suffix(file))
        is_image == ext \in IMAGE_EXTENSIONS
        temp_pdf == WithPdfSuffix(file)
        Return(d2, t2, r, conv, ren) ==
            [fs |-> d2, tmp |-> t2, ret |-> r, conv_clobbered |-> conv,
             clobbered |-> ren, raised |-> FALSE]
        Raise(d2, t2, conv) ==
            [fs |-> d2, tmp |-> t2, ret |-> RetNone, conv_clobbered |-> conv,
             clobbered |-> {}, raised |-> TRUE]
    IN
    IF file \notin DOMAIN d THEN Return(d, t, RetNone, {}, {})
    ELSE IF ext \notin SUPPORTED_EXTENSIONS THEN Return(d, t, RetNone, {}, {})
    ELSE IF is_image /\ env = "conv_fail" THEN Return(d, t, RetNone, {}, {})
    ELSE
    LET own  == d[file].doc
        d1   == IF is_image
                THEN FsWrite(d, temp_pdf, [doc |-> own, form |-> "pdf"])
                ELSE d
        conv == IF is_image /\ temp_pdf \in DOMAIN d
                THEN {d[temp_pdf].doc} \ {own} ELSE {}
        ex   == extract_info_with_gemini(up)
    IN
    IF ex.raised THEN Raise(d1, t, conv)
    ELSE IF ~ex.ok THEN Return(d1, t, RetError(file), conv, {})
    ELSE
    LET info == FillInfo(ex.info)
        gen  == generate_filename_from_info(info, Stem(file))
        txt  == Stem(file) \o TxtExt
        json == Stem(file) \o JsonExt
    IN
    IF gen.raised THEN Raise(d1, t, conv)
    ELSE IF env = "txt_fail" THEN Raise(d1, t, conv)
    ELSE IF env = "json_fail" THEN Raise(d1, t \cup {txt}, conv)
    ELSE
    LET t2     == t \cup {txt, json}
        target == gen.name
        d2     == IF is_image THEN FsRemove(d1, file) ELSE d1
        src    == IF is_image THEN temp_pdf ELSE file
        ren    == IF target \in DOMAIN d2 /\ target # src
                  THEN {d2[target].doc} \ {own} ELSE {}
    IN
    IF RenameRaises(d2, src, target, env, platform)
    THEN Raise(IF is_image THEN FsRemove(d2, temp_pdf) ELSE d2, t2, conv)
    ELSE Return(FsRename(d2, src, target), t2,
                RetInfo(info, target, MissingFields(info)), conv, ren)

process_file(d, t, file, up, env, platform) ==
    CatchAll(process_file_try(d, t, file, up, env, platform))

(***************************************************************************)
(* State                                                                   *)
(***************************************************************************)

VARIABLES
    fs,                 \* the input directory: file name -> [doc, form]
    tmp,                \* the names in temp_ocr_processing
    tmp_exists,         \* whether temp_ocr_processing exists
    platform,           \* "posix" or "nt"
    files,              \* process_directory: sorted(input_path.glob('*'))
    idx,                \* process_directory: position of the loop in files
    pc,                 \* process_directory: "loop", "done" or "aborted"
    processed_files,    \* process_directory: <<file, final_path>> pairs
    failed_files,       \* process_directory: the failed files
    fs0,                \* history: the directory when the run started
    skipped,            \* history: the entries the loop passed over
    conv_clobbered,     \* history: receipts overwritten by a conversion
    clobbered,          \* history: receipts overwritten by a rename
    last,               \* history: the latest process_file call
    rfile,              \* perform_ocr_with_retry: file_path
    max_retries,        \* perform_ocr_with_retry: max_retries
    is_running,         \* OcrWorker.is_running
    retries,            \* perform_ocr_with_retry: retries
    rpc,                \* perform_ocr_with_retry: where the call stands
    wait_time,          \* perform_ocr_with_retry: wait_time, in seconds
    polls_left,         \* iterations left of `for _ in range(wait_time * 10)`
    result,             \* what the call returned: "pending", "info", "none"
    attempts,           \* history: calls of gemini_ocr.process_file
    last_fail,          \* history: how the latest failed iteration failed
    retry_of,           \* history: last_fail when the latest attempt began
    rl_run,             \* history: consecutive rate-limit failures so far
    paths_seen,         \* history: the kinds of failure met so far
    waited_rl,          \* history: rate-limit waits completed, in ticks
    stop_in_wait,       \* history: stop() came while the call was waiting
    since_stop,         \* history: ticks slept after stop() was called
    attempts_at_stop,   \* history: attempts when stop() was called
    gen,                \* a call of generate_filename_from_info and its result
    prov,               \* one provider's path from a raw record to a filename
    batch,              \* a directory run of the command-line tools ocr.py, namecard.py
    ren,                \* one JSON file of a run of rename_receipt_files
    run_no,             \* which run of process_directory over the directory
    first_renamed,      \* history: the names an earlier run gave its files
    result_dict,        \* perform_ocr_with_retry: the record it returns
    input_files,        \* OcrWorker.run: input_files
    run_i,              \* OcrWorker.run: position of the loop in input_files
    run_pc,             \* OcrWorker.run: where the run stands
    rename_files,       \* OcrWorker.rename_files
    force_process,      \* OcrWorker.force_process
    out,                \* the names in output_dir
    same_dir,           \* output_dir is the input directory
    processed,          \* OcrWorker.run: processed
    complete_signal,    \* what complete_signal emitted: "none", "true", "false"
    stopped_reported,   \* history: "processing_stopped" was emitted
    reports,            \* history: what was reported of the latest file
    starts,             \* history: perform_ocr_with_retry calls for that file
    pace,               \* history: ticks of pacing slept after that file
    stop_after          \* history: the last file started when stop() came

dirVars ==
    <<fs, tmp, tmp_exists, platform, files, idx, pc, processed_files,
      failed_files, fs0, skipped, conv_clobbered, clobbered, last>>

retryVars ==
    <<rfile, max_retries, is_running, retries, rpc, wait_time, polls_left,
      result, attempts, last_fail, retry_of, rl_run, paths_seen, waited_rl,
      stop_in_wait, since_stop, attempts_at_stop, result_dict>>

nameVars == <<gen, prov, batch, ren>>

resumeVars == <<run_no, first_renamed>>

runVars ==
    <<input_files, run_i, run_pc, rename_files,
      force_process, out, processed, complete_signal, stopped_reported,
      reports, starts, pace, stop_after, same_dir>>

vars == <<dirVars, retryVars, nameVars, resumeVars, runVars>>

(***************************************************************************)
(* Inputs                                                                  *)
(***************************************************************************)

\* a complete receipt: 230516_Cafe_5_KRW.pdf
InfoFull ==
    [date |-> PyStr(<<"2", "0", "2", "3", "0", "5", "1", "6">>),
     place |-> PyStr(<<"C", "a", "f", "e">>), amount |-> PyInt(5),
     currency |-> PyStr(<<"K", "R", "W">>)]

\* nothing recognised: every field null
InfoNull == NoInfo

\* the records the extraction answers: complete, all null, a date as printed
\* on the receipt ("2023/05/16"), a place that is a JSON number
Infos ==
    { InfoFull, InfoNull,
      [date |-> PyStr(<<"2", "0", "2", "3", "/", "0", "5", "/", "1", "6">>),
       place |-> PyNone, amount |-> PyNone, currency |-> PyNone],
      [date |-> PyNone, place |-> PyInt(7), amount |-> PyNone, currency |-> PyNone] }

UpFailKinds == {"rate_limit", "auth", "malformed", "client_error"}

Upstreams ==
    {[kind |-> "ok", info |-> i] : i \in Infos}
        \cup {[kind |-> k, info |-> NoInfo] : k \in UpFailKinds}

EnvFaults == {"ok", "conv_fail", "txt_fail", "json_fail", "rename_fail"}

Platforms == {"posix", "nt"}

TempDirName == <<"t", "e", "m", "p", "_", "o", "c", "r", "_", "p", "r", "o", "c", "e", "s", "s", "i", "n", "g">>

\* the files a directory may hold when a run starts, each its own receipt
CandidateFiles ==
    { [name |-> <<"a", ".", "j", "p", "g">>, doc |-> 1, form |-> "img"],
      [name |-> <<"a", ".", "p", "d", "f">>, doc |-> 2, form |-> "pdf"],
      [name |-> <<"b", ".", "p", "d", "f">>, doc |-> 3, form |-> "pdf"],
      [name |-> <<"n", ".", "t", "x", "t">>, doc |-> 4, form |-> "txt"],
      [name |-> <<".", "h", ".", "p", "d", "f">>, doc |-> 5, form |-> "pdf"],
      [name |-> <<"2", "3", "0", "5", "1", "6", "_", "C", "a", "f", "e", "_", "5", "_", "K", "R", "W", ".", "p", "d", "f">>, doc |-> 6, form |-> "pdf"] }

\* the most files a directory holds when a run starts
MaxDirFiles == 3

DirOf(S) == [n \in {f.name : f \in S} |-> 
                LET f == CHOOSE g \in S : g.name = n
                IN  [doc |-> f.doc, form |-> f.form]]

(***************************************************************************)
(* gemini_ocr.process_directory                                            *)
(***************************************************************************)

NoGen == [called |-> FALSE, info |-> NoInfo, stem |-> <<>>, raised |-> FALSE,
          name |-> <<>>]

\* no stand-alone call of generate_filename_from_info and no run of the
\* command-line tools is modelled
NameIdle == gen = NoGen /\ prov = NoGen /\ batch = NoGen /\ ren = NoGen

\* no run of OcrWorker.run is modelled
RunIdle ==
    /\ input_files = <<>>
    /\ run_i = 1
    /\ run_pc = "idle"
    /\ rename_files = TRUE
    /\ force_process = FALSE
    /\ out = {}
    /\ same_dir = FALSE
    /\ processed = 0
    /\ complete_signal = "none"
    /\ stopped_reported = FALSE
    /\ reports = {}
    /\ starts = 0
    /\ pace = 0
    /\ stop_after = -1

\* the first run over a directory
FirstRun == run_no = 1 /\ first_renamed = {}

\* the worker's variables while no call of perform_ocr_with_retry is modelled
RetryIdle ==
    /\ rfile = <<>>
    /\ max_retries = 0
    /\ is_running = TRUE
    /\ retries = 0
    /\ rpc = "idle"
    /\ wait_time = 0
    /\ polls_left = 0
    /\ result = "pending"
    /\ attempts = 0
    /\ last_fail = "none"
    /\ retry_of = "none"
    /\ rl_run = 0
    /\ paths_seen = {}
    /\ waited_rl = 0
    /\ stop_in_wait = FALSE
    /\ since_stop = 0
    /\ attempts_at_stop = 0
    /\ result_dict = NoInfo

NoCall == [called |-> FALSE, file |-> <<>>, doc |-> 0, up |-> "ok", env |-> "ok",
           kind |-> "none", final_path |-> <<>>, info |-> NoInfo,
           missing_fields |-> <<>>]

\* the state when the loop starts: temp directory made, directory listed
DirInit ==
    /\ platform \in Platforms
    /\ \E S \in SUBSET CandidateFiles :
         /\ Cardinality(S) <= MaxDirFiles
         /\ fs = DirOf(S)
    /\ tmp = {}
    /\ tmp_exists = TRUE
    /\ files = SortedSeq((DOMAIN fs) \cup {TempDirName})
    /\ idx = 1
    /\ pc = "loop"
    /\ processed_files = <<>>
    /\ failed_files = <<>>
    /\ fs0 = fs
    /\ skipped = <<>>
    /\ conv_clobbered = {}
    /\ clobbered = {}
    /\ last = NoCall
    /\ RetryIdle
    /\ NameIdle
    /\ FirstRun
    /\ RunIdle

\* `file_path == temp_path or file_path.name.startswith('.')`
Skipped(file) == file = TempDirName \/ StartsWith(file, <<".">>)

\* `file_path.is_file() and file_path.suffix.lower() in SUPPORTED_EXTENSIONS`
Eligible(d, file) ==
    file \in DOMAIN d /\ Lower(Suffix(file)) \in SUPPORTED_EXTENSIONS

\* the loop is at an entry that it gives to process_file
AtEligibleEntry ==
    /\ pc = "loop"
    /\ idx <= Len(files)
    /\ ~Skipped(files[idx])
    /\ Eligible(fs, files[idx])

\* the loop is at an entry that it passes over
AtSkippedEntry ==
    /\ pc = "loop"
    /\ idx <= Len(files)
    /\ Skipped(files[idx]) \/ ~Eligible(fs, files[idx])

\* the loop has ended
AtSummary == pc = "loop" /\ idx > Len(files)

\* one iteration of the loop that calls process_file
ProcessEntry ==
    /\ AtEligibleEntry
    /\ \E up \in Upstreams, env \in EnvFaults :
         \E r \in {process_file(fs, tmp, files[idx], up, env, platform)} :
         LET file == files[idx]
         IN  /\ fs' = r.fs
             /\ tmp' = r.tmp
             /\ IF r.raised
                THEN /\ pc' = "aborted"
                     /\ UNCHANGED <<idx, processed_files, failed_files>>
                ELSE /\ pc' = pc
                     /\ idx' = idx + 1
                     /\ IF RetTruthy(r.ret)
                        THEN /\ processed_files' =
                                  Append(processed_files, <<file, r.ret.final_path>>)
                             /\ failed_files' = failed_files
                        ELSE /\ failed_files' = Append(failed_files, file)
                             /\ processed_files' = processed_files
             /\ conv_clobbered' = conv_clobbered \cup r.conv_clobbered
             /\ clobbered' = clobbered \cup r.clobbered
             /\ last' = [called |-> TRUE, file |-> file, doc |-> fs[file].doc,
                         up |-> up.kind, env |-> env, kind |-> r.ret.kind,
                         final_path |-> r.ret.final_path, info |-> up.info,
                         missing_fields |-> r.ret.missing_fields]
    /\ UNCHANGED <<tmp_exists, platform, files, fs0, skipped>>
    /\ UNCHANGED <<retryVars, nameVars, resumeVars, runVars>>

\* one iteration of the loop on an entry that is skipped or filtered out
SkipEntry ==
    /\ AtSkippedEntry
    /\ idx' = idx + 1
    /\ skipped' = Append(skipped, files[idx])
    /\ UNCHANGED <<fs, tmp, tmp_exists, platform, files, pc, processed_files,
                   failed_files, fs0, conv_clobbered, clobbered, last>>
    /\ UNCHANGED <<retryVars, nameVars, resumeVars, runVars>>

\* after the loop: remove the temp directory when empty, log the summary
Summary ==
    /\ AtSummary
    /\ tmp_exists' = (tmp # {})
    /\ pc' = "done"
    /\ UNCHANGED <<fs, tmp, platform, files, idx, processed_files,
                   failed_files, fs0, skipped, conv_clobbered, clobbered, last>>
    /\ UNCHANGED <<retryVars, nameVars, resumeVars, runVars>>

DirNext == ProcessEntry \/ SkipEntry \/ Summary

SpecDir == DirInit /\ [][DirNext]_vars

(***************************************************************************)
(* Claims about the directory run (SpecDir)                                *)
(***************************************************************************)

ProcessedNames == {processed_files[i][1] : i \in 1..Len(processed_files)}

FailedNames == {failed_files[i] : i \in 1..Len(failed_files)}

SkippedNames == {skipped[i] : i \in 1..Len(skipped)}

\* the upstream failures that extract_info_with_gemini reports as a failed
\* extraction
TerminalUpstream == {"auth", "malformed"}

APdf == <<"a", ".", "p", "d", "f">>

BPdf == <<"b", ".", "p", "d", "f">>

\* C1: in a directory run every file whose extraction fails terminally
\* (for example with an authentication error) is recorded as failed and not
\* as processed; a directory of one valid receipt (a.pdf) and one file whose
\* extraction returns an authentication error (b.pdf) ends with 1 processed
\* and 1 failed.
C1_FailedExtractionIsFailed ==
    /\ (last.called /\ ~(last.env = "conv_fail" /\ fs0[last.file].form = "img") /\ last.up \in TerminalUpstream)
          => (last.file \in FailedNames /\ last.file \notin ProcessedNames)
    /\ ( /\ pc = "done"
         /\ DOMAIN fs0 = {APdf, BPdf}
         /\ Len(processed_files) >= 1
         /\ processed_files[1][1] = APdf
         /\ processed_files[1][2] # <<>>
         /\ last.file = BPdf
         /\ last.up = "auth" )
          => (Len(processed_files) = 1 /\ Len(failed_files) = 1)

C3_RenameNeverOverwrites ==
    /\ clobbered = {}
    /\ \A i, j \in 1..Len(processed_files) :
          (i # j /\ processed_files[i][2] # <<>>)
             => processed_files[i][2] # processed_files[j][2]

\* C4: whenever process_file has returned, the receipt it was called on
\* still exists, at its original path or at the final path it returned.
C4_ReceiptNeverLost ==
    last.called =>
       \/ last.file \in DOMAIN fs /\ fs[last.file].doc = last.doc
       \/ /\ last.kind = "info"
          /\ last.final_path \in DOMAIN fs
          /\ fs[last.final_path].doc = last.doc

(***************************************************************************)
(* ocr_gui.OcrWorker.perform_ocr_with_retry and OcrWorker.stop             *)
(***************************************************************************)

\* `self.retry_delay = 2`: initial retry delay in seconds
retry_delay == 2

\* `max_retries=5`: the default of perform_ocr_with_retry
DEFAULT_MAX_RETRIES == 5

\* `wait_time = 60`: "Wait 1 minute for rate limit"
RATE_LIMIT_WAIT == 60

\* `time.sleep(1)`: "Brief pause before retry"
BRIEF_PAUSE == 1

\* `range(wait_time * 10)` with `time.sleep(0.1)`: a tick is 0.1 s
TICKS_PER_SECOND == 10

\* the largest max_retries a call is given
MaxRetriesBound == 5

RECURSIVE Pow2(_)
\* 2 ** n
Pow2(n) == IF n <= 0 THEN 1 ELSE 2 * Pow2(n - 1)

RateLimitWords == <<"r", "a", "t", "e", " ", "l", "i", "m", "i", "t">>

\* `["429", "rate limit", "quota"]`
RateLimitTerms == {<<"4", "2", "9">>, RateLimitWords, <<"q", "u", "o", "t", "a">>}

\* `'rate limit' in error_msg.lower()`
IsRateLimitResult(msg) == Contains(Lower(msg), RateLimitWords)

\* `any(term in error_str.lower() for term in [...])`
IsRateLimitException(error_str) ==
    \E term \in RateLimitTerms : Contains(Lower(error_str), term)

\* str(e) of the OSErrors that tempfile.TemporaryDirectory() raises
TempDirErrors ==
    { <<"D", "i", "s", "k", " ", "q", "u", "o", "t", "a", " ", "e", "x", "c", "e", "e", "d", "e", "d">>,
      <<"N", "o", " ", "s", "p", "a", "c", "e", " ", "l", "e", "f", "t", " ", "o", "n", " ", "d", "e", "v", "i", "c", "e">> }

RateLimitPdf == <<"R", "a", "t", "e", " ", "L", "i", "m", "i", "t", ".", "p", "d", "f">>

\* the files a call is made on, each alone in its directory
RetryFiles == {APdf, RateLimitPdf}

\* the waits of the call
WaitStates == {"sleep60", "poll", "pollsleep", "sleep1"}

\* the moments of a sleep of d ticks at which stop() is tried: the remainder
StopRemainders(d) == {1, d}

RetryInit ==
    /\ rfile \in RetryFiles
    /\ max_retries \in 0..MaxRetriesBound
    /\ is_running = TRUE
    /\ retries = 0
    /\ rpc = "while"
    /\ wait_time = 0
    /\ polls_left = 0
    /\ result = "pending"
    /\ attempts = 0
    /\ last_fail = "none"
    /\ retry_of = "none"
    /\ rl_run = 0
    /\ paths_seen = {}
    /\ waited_rl = 0
    /\ stop_in_wait = FALSE
    /\ since_stop = 0
    /\ attempts_at_stop = 0
    /\ result_dict = NoInfo
    /\ platform = "posix"
    /\ fs = (rfile :> [doc |-> 1, form |-> "pdf"])
    /\ tmp = {}
    /\ tmp_exists = FALSE
    /\ files = <<>>
    /\ idx = 1
    /\ pc = "worker"
    /\ processed_files = <<>>
    /\ failed_files = <<>>
    /\ fs0 = fs
    /\ skipped = <<>>
    /\ conv_clobbered = {}
    /\ clobbered = {}
    /\ last = NoCall
    /\ NameIdle
    /\ FirstRun
    /\ RunIdle

\* what a retry step leaves alone of the directory run
UnchangedByRetry ==
    UNCHANGED <<tmp, tmp_exists, platform, files, idx, pc, processed_files,
                failed_files, fs0, skipped, conv_clobbered, clobbered, last,
                rfile, max_retries, nameVars, resumeVars, runVars>>

\* `return None` / `return result`
ReturnFromCall(res) ==
    /\ rpc' = "returned"
    /\ result' = res

\* line 92: the loop condition is false, line 186: `return None`
WhileExit ==
    /\ rpc = "while"
    /\ ~(retries < max_retries /\ is_running)
    /\ ReturnFromCall("none")
    /\ UNCHANGED <<fs, is_running, retries, wait_time, polls_left, attempts,
                   last_fail, retry_of, rl_run, paths_seen, waited_rl,
                   stop_in_wait, since_stop, attempts_at_stop>>
    /\ UnchangedByRetry
    /\ UNCHANGED result_dict

\* mutant of EnterAttempt: the loop condition is `retries <= max_retries`
EnterAttemptOffByOne ==
    /\ rpc = "while"
    /\ retries <= max_retries /\ is_running
    /\ rpc' = "call"
    /\ retry_of' = last_fail
    /\ UNCHANGED <<fs, is_running, retries, wait_time, polls_left, result,
                   attempts, last_fail, rl_run, paths_seen, waited_rl,
                   stop_in_wait, since_stop, attempts_at_stop>>
    /\ UnchangedByRetry
    /\ UNCHANGED result_dict

\* lines 92-98: the loop condition holds and the temporary directory is made
EnterAttempt ==
    /\ rpc = "while"
    /\ retries < max_retries /\ is_running
    /\ rpc' = "call"
    /\ retry_of' = last_fail
    /\ UNCHANGED <<fs, is_running, retries, wait_time, polls_left, result,
                   attempts, last_fail, rl_run, paths_seen, waited_rl,
                   stop_in_wait, since_stop, attempts_at_stop>>
    /\ UnchangedByRetry
    /\ UNCHANGED result_dict

\* mutant of RateLimitHandler: the wait does not grow with the retries
RateLimitHandlerFixedDelay ==
    /\ retries' = retries + 1
    /\ last_fail' = "exc_rl"
    /\ rl_run' = rl_run + 1
    /\ paths_seen' = paths_seen \cup {"exc_rl"}
    /\ IF retries' >= max_retries
       THEN /\ ReturnFromCall("none")
            /\ UNCHANGED <<wait_time, polls_left>>
       ELSE /\ wait_time' = retry_delay
            /\ polls_left' = wait_time' * TICKS_PER_SECOND
            /\ rpc' = "poll"
            /\ result' = result

\* mutant of RateLimitHandler: the call waits after its last attempt too
RateLimitHandlerWaitsLast ==
    /\ retries' = retries + 1
    /\ last_fail' = "exc_rl"
    /\ rl_run' = rl_run + 1
    /\ paths_seen' = paths_seen \cup {"exc_rl"}
    /\ wait_time' = retry_delay * Pow2(retries' - 1)
    /\ polls_left' = wait_time' * TICKS_PER_SECOND
    /\ rpc' = "poll"
    /\ result' = result

\* lines 165-179: the handler of an exception that names a rate limit
RateLimitHandler ==
    /\ retries' = retries + 1
    /\ last_fail' = "exc_rl"
    /\ rl_run' = rl_run + 1
    /\ paths_seen' = paths_seen \cup {"exc_rl"}
    /\ IF retries' >= max_retries
       THEN /\ ReturnFromCall("none")
            /\ UNCHANGED <<wait_time, polls_left>>
       ELSE /\ wait_time' = retry_delay * Pow2(retries' - 1)
            /\ polls_left' = wait_time' * TICKS_PER_SECOND
            /\ rpc' = "poll"
            /\ result' = result

\* lines 180-184: the handler of any other exception
OtherHandler ==
    /\ retries' = retries + 1
    /\ last_fail' = "exc_other"
    /\ rl_run' = 0
    /\ paths_seen' = paths_seen \cup {"exc_other"}
    /\ rpc' = IF retries' < max_retries THEN "sleep1" ELSE "while"
    /\ UNCHANGED <<wait_time, polls_left, result>>

\* lines 92-95, 144-185: the loop condition holds, TemporaryDirectory()
\* raises and the outer handler runs
TempDirRaises ==
    /\ rpc = "while"
    /\ retries < max_retries /\ is_running
    /\ \E error_str \in TempDirErrors :
         IF IsRateLimitException(error_str)
         THEN RateLimitHandler
         ELSE OtherHandler
    /\ UNCHANGED <<fs, is_running, attempts, retry_of, waited_rl,
                   stop_in_wait, since_stop, attempts_at_stop>>
    /\ UnchangedByRetry
    /\ UNCHANGED result_dict

\* lines 100-136: process_file returns and its result is handled, up to the
\* return or to the start of the 60 s sleep
Attempt ==
    /\ rpc = "call"
    /\ \E up \in Upstreams, env \in EnvFaults :
         \E r \in {process_file(fs, {}, rfile, up, env, platform)} :
           /\ fs' = r.fs
           /\ attempts' = attempts + 1
           /\ result_dict' = IF r.ret.kind = "info" THEN r.ret.info
                                                    ELSE NoInfo
           /\ IF r.ret.kind = "info"
              THEN /\ ReturnFromCall("info")
                   /\ UNCHANGED <<wait_time, last_fail, rl_run, paths_seen,
                                  since_stop>>
              ELSE IF r.ret.kind = "error" /\ IsRateLimitResult(r.ret.msg)
              THEN /\ wait_time' = RATE_LIMIT_WAIT
                   /\ rpc' = "sleep60"
                   /\ result' = result
                   /\ last_fail' = up.kind
                   /\ rl_run' = rl_run + 1
                   /\ paths_seen' = paths_seen \cup {"res_rl"}
                   /\ since_stop' =
                        IF is_running THEN since_stop
                        ELSE since_stop + RATE_LIMIT_WAIT * TICKS_PER_SECOND
              ELSE /\ ReturnFromCall("none")
                   /\ last_fail' = IF up.kind = "ok" THEN "local" ELSE up.kind
                   /\ UNCHANGED <<wait_time, rl_run, paths_seen, since_stop>>
    /\ UNCHANGED <<is_running, retries, polls_left, retry_of, waited_rl,
                   stop_in_wait, attempts_at_stop>>
    /\ UnchangedByRetry

\* lines 127-129: `time.sleep(wait_time)` ends, `retries += 1; continue`
Sleep60End ==
    /\ rpc = "sleep60"
    /\ retries' = retries + 1
    /\ waited_rl' = waited_rl + wait_time * TICKS_PER_SECOND
    /\ rpc' = "while"
    /\ UNCHANGED <<fs, is_running, wait_time, polls_left, result, attempts,
                   last_fail, retry_of, rl_run, paths_seen, stop_in_wait,
                   since_stop, attempts_at_stop>>
    /\ UnchangedByRetry
    /\ UNCHANGED result_dict

\* lines 176-178: the top of a loop iteration, `if not self.is_running`
PollCheck ==
    /\ rpc = "poll"
    /\ IF ~is_running
       THEN ReturnFromCall("none")
       ELSE rpc' = "pollsleep" /\ result' = result
    /\ UNCHANGED <<fs, is_running, retries, wait_time, polls_left, attempts,
                   last_fail, retry_of, rl_run, paths_seen, waited_rl,
                   stop_in_wait, since_stop, attempts_at_stop>>
    /\ UnchangedByRetry
    /\ UNCHANGED result_dict

\* line 179: `time.sleep(0.1)` ends; after the last iteration the while loop
\* goes on
PollSleepEnd ==
    /\ rpc = "pollsleep"
    /\ polls_left' = polls_left - 1
    /\ waited_rl' = waited_rl + 1
    /\ rpc' = IF polls_left' = 0 THEN "while" ELSE "poll"
    /\ UNCHANGED <<fs, is_running, retries, wait_time, result, attempts,
                   last_fail, retry_of, rl_run, paths_seen, stop_in_wait,
                   since_stop, attempts_at_stop>>
    /\ UnchangedByRetry
    /\ UNCHANGED result_dict

\* line 184: `time.sleep(1)` ends
Sleep1End ==
    /\ rpc = "sleep1"
    /\ rpc' = "while"
    /\ UNCHANGED <<fs, is_running, retries, wait_time, polls_left, result,
                   attempts, last_fail, retry_of, rl_run, paths_seen,
                   waited_rl, stop_in_wait, since_stop, attempts_at_stop>>
    /\ UnchangedByRetry
    /\ UNCHANGED result_dict

\* the ticks the sleep in progress has left when stop() is called
SleepLeft ==
    IF rpc = "sleep60" THEN StopRemainders(RATE_LIMIT_WAIT * TICKS_PER_SECOND)
    ELSE IF rpc = "sleep1" THEN StopRemainders(BRIEF_PAUSE * TICKS_PER_SECOND)
    ELSE IF rpc = "pollsleep" THEN {1}
    ELSE {0}

\* OcrWorker.stop, called from the GUI thread while the call is under way
stop ==
    /\ rpc # "returned"
    /\ is_running
    /\ is_running' = FALSE
    /\ stop_in_wait' = (rpc \in WaitStates)
    /\ attempts_at_stop' = attempts
    /\ \E left \in SleepLeft : since_stop' = since_stop + left
    /\ UNCHANGED <<fs, retries, rpc, wait_time, polls_left, result, attempts,
                   last_fail, retry_of, rl_run, paths_seen, waited_rl>>
    /\ UnchangedByRetry
    /\ UNCHANGED result_dict

RetryNext ==
    \/ WhileExit
    \/ EnterAttempt
    \/ TempDirRaises
    \/ Attempt
    \/ Sleep60End
    \/ PollCheck
    \/ PollSleepEnd
    \/ Sleep1End
    \/ stop

SpecRetry == RetryInit /\ [][RetryNext]_vars

(***************************************************************************)
(* Claims about perform_ocr_with_retry (SpecRetry)                         *)
(***************************************************************************)

\* the call gave up: it returned None, unstopped, with its retries used up
GaveUp ==
    /\ rpc = "returned"
    /\ result = "none"
    /\ is_running
    /\ max_retries >= 1
    /\ retries >= max_retries

\* C5: a rate-limit (429 / quota) failure of an extraction is recoverable:
\* unless stop() was called, the call that met it does not give up before it
\* has made max_retries attempts.
C5_RateLimitRecoverable ==
    (rpc = "returned" /\ result = "none" /\ last_fail = "rate_limit" /\ is_running)
        => attempts >= max_retries

\* C6: whatever the attempts answer and whatever max_retries >= 0 is, a call
\* of perform_ocr_with_retry never makes more than max_retries calls of
\* process_file and then returns: every attempt that did not return has used
\* up one of the max_retries retries, no attempt starts once they are used
\* up, and every wait on the way is a bounded number of ticks.
C6_AtMostMaxRetriesAttempts ==
    /\ attempts <= max_retries
    /\ retries <= max_retries
    /\ rpc = "while" => attempts <= retries
    /\ rpc = "call" => attempts <= retries /\ retries < max_retries
    /\ rpc = "sleep60" => attempts <= retries + 1 /\ retries < max_retries
    /\ rpc \in {"poll", "pollsleep"}
          => polls_left \in 1..(wait_time * TICKS_PER_SECOND)
    /\ rpc = "returned" => result \in {"info", "none"}
    /\ rpc # "returned" => result = "pending"

\* C6 witness: a call that returned after it made all of its max_retries
\* attempts, more than one.
C6_Witness ==
    /\ rpc = "returned"
    /\ result = "none"
    /\ max_retries >= 2
    /\ attempts = max_retries

\* C7: an extraction that fails with an authentication or malformed-response
\* failure is never retried: the call returns None after that attempt, and
\* of the failures of an extraction only a rate-limit failure is followed by
\* another attempt.
C7_TerminalFailureNotRetried ==
    /\ last_fail \in TerminalUpstream => (rpc = "returned" /\ result = "none")
    /\ retry_of \in UpFailKinds => retry_of = "rate_limit"

C10_WaitsInterruptible ==
    /\ (stop_in_wait /\ rpc = "returned") => since_stop <= 1
    /\ stop_in_wait => attempts = attempts_at_stop

(***************************************************************************)
(* Claims about what process_file leaves behind (SpecDir)                  *)
(***************************************************************************)

\* C15: when process_file has returned from a call on an image that it
\* converted to PDF, whatever the outcome, the original image and a PDF
\* derived from it are not both in the directory.
C15_ImageAndPdfNeverBoth ==
    (/\ last.called
     /\ Lower(Suffix(last.file)) \in IMAGE_EXTENSIONS
     /\ last.env # "conv_fail") =>
        ~(/\ last.file \in DOMAIN fs
          /\ fs[last.file].doc = last.doc
          /\ \E n \in DOMAIN fs : fs[n].doc = last.doc /\ fs[n].form = "pdf")

\* C16: a failure to write the text or JSON artifact of a file, when nothing
\* else goes wrong (the extraction answers a record whose filename is derived
\* and free), does not change the file's outcome: process_file still returns the record, the file
\* is renamed to its final path and the run records it as processed.
C16_PersistenceFailureNotFatal ==
    (/\ last.called
     /\ last.env \in {"txt_fail", "json_fail"}
     /\ last.up = "ok"
     /\ last.info \in {InfoFull, InfoNull}
     /\ platform = "posix") =>
        /\ last.kind = "info"
        /\ last.final_path \in DOMAIN fs
        /\ last.file \in ProcessedNames
        /\ last.file \notin FailedNames

\* C17: the missing_fields list of a processed file holds exactly those of
\* date, place, amount, currency whose value is the NA sentinel (null, absent
\* or blank in the extraction result), in that order.
C17_MissingFieldsAreNAFields ==
    (last.called /\ last.kind = "info") =>
        last.missing_fields =
            SelectSeq(FIELDS, LAMBDA f : FillNA(last.info[f]) = PyStr(NA))

\* C29: converting an image never overwrites another input: with X.jpg and
\* X.pdf both in the directory, processing X.jpg leaves the content of X.pdf
\* as it was (and X.pdf is then still processed as its own receipt).  No
\* conversion has written over the document of another file.
C29_ConversionKeepsOtherInput ==
    conv_clobbered = {}

(***************************************************************************)
(* gemini_ocr.generate_filename_from_info on its own (SpecName)            *)
(***************************************************************************)

\* the extraction records the function is called with: each field is one of
\* the values the provider's JSON can give it (null, absent, NA, a string, a
\* number)
NameInfos ==
    { [date |-> d, place |-> p, amount |-> a, currency |-> c] :
        d \in { PyNone, PyAbsent, PyStr(NA),
                PyStr(<<"2", "0", "2", "3", "0", "5", "1", "6">>),
                PyStr(<<"2", "3", "0", "5", "1", "6">>),
                PyStr(<<"2", "0", "2", "3", "/", "0", "5", "/", "1", "6">>),
                PyStr(<<"5", "/", "1", "6">>),
                PyInt(20230516) },
        p \in { PyNone, PyStr(NA), PyStr(<<"C", "a", "f", "e">>),
                PyStr(<<"A", "/", "B", " ", "C">>), PyStr(<<"/">>), PyInt(7) },
        a \in { PyNone, PyStr(NA), PyInt(5), PyInt(0),
                PyStr(<<"5", ".", "0">>), PyStr(<<"1", "/", "2">>) },
        c \in { PyNone, PyStr(NA), PyStr(<<"K", "R", "W">>),
                PyStr(<<"U", "S", "/", "D">>) } }

NameInit ==
    /\ \E i \in NameInfos,
          st \in {<<"a">>, <<"r", "e", "c", "e", "i", "p", "t", " ", "1">>} :
         gen = [NoGen EXCEPT !.info = i, !.stem = st]
    /\ prov = NoGen
    /\ batch = NoGen
    /\ ren = NoGen
    /\ platform = "posix"
    /\ fs = <<>>
    /\ tmp = {}
    /\ tmp_exists = FALSE
    /\ files = <<>>
    /\ idx = 1
    /\ pc = "name"
    /\ processed_files = <<>>
    /\ failed_files = <<>>
    /\ fs0 = <<>>
    /\ skipped = <<>>
    /\ conv_clobbered = {}
    /\ clobbered = {}
    /\ last = NoCall
    /\ RetryIdle
    /\ FirstRun
    /\ RunIdle

\* one call of generate_filename_from_info(extracted_info, original_path)
Generate ==
    /\ ~gen.called
    /\ \E r \in {generate_filename_from_info(gen.info, gen.stem)} :
         gen' = [gen EXCEPT !.called = TRUE, !.raised = r.raised,
                            !.name = r.name]
    /\ UNCHANGED <<prov, batch, ren, dirVars, retryVars, resumeVars, runVars>>

SpecName == NameInit /\ [][Generate]_vars

\* the string ends with the suffix
EndsWith(s, suffix) ==
    /\ Len(s) >= Len(suffix)
    /\ SubSeq(s, Len(s) - Len(suffix) + 1, Len(s)) = suffix

\* C19: generate_filename_from_info is total: for every extraction record,
\* each field present, null, absent, NA or not a string, it returns without
\* raising, and what it returns is a non-empty string that ends in ".pdf".
C19_FilenameTotal ==
    gen.called =>
        /\ ~gen.raised
        /\ Len(gen.name) > Len(PdfExt)
        /\ EndsWith(gen.name, PdfExt)

\* C20: the filename derived from an extraction record is one filesystem-safe
\* path component whatever the raw date, amount and currency strings hold: no
\* path separator and no character that is illegal in a file name.
C20_FilenameSafe ==
    (gen.called /\ ~gen.raised) =>
        \A i \in 1..Len(gen.name) : gen.name[i] \notin
            {"/", "\\", ":", "*", "?", "\"", "<", ">", "|"}

(***************************************************************************)
(* gemini_ocr.process_directory run again over the same directory          *)
(* (SpecResume)                                                            *)
(***************************************************************************)

\* the final names that a finished run gave to files and that are still in
\* the directory
RenamedNames ==
    {processed_files[i][2] : i \in 1..Len(processed_files)} \cap DOMAIN fs

\* process_directory is called a second time on the directory that the first
\* run left: temp directory made again, directory listed again
Rerun ==
    /\ pc = "done"
    /\ run_no = 1
    /\ run_no' = 2
    /\ first_renamed' = RenamedNames
    /\ tmp_exists' = TRUE
    /\ files' = SortedSeq((DOMAIN fs) \cup {TempDirName})
    /\ idx' = 1
    /\ pc' = "loop"
    /\ processed_files' = <<>>
    /\ failed_files' = <<>>
    /\ fs0' = fs
    /\ skipped' = <<>>
    /\ conv_clobbered' = {}
    /\ clobbered' = {}
    /\ last' = NoCall
    /\ UNCHANGED <<fs, tmp, platform, retryVars, nameVars, runVars>>

\* the most files the directory holds when the first of the two runs starts
MaxResumeFiles == 2

ResumeInit ==
    /\ DirInit
    /\ Cardinality(DOMAIN fs) <= MaxResumeFiles

ResumeNext == DirNext \/ Rerun

SpecResume == ResumeInit /\ [][ResumeNext]_vars

\* C14: a directory run is safe to resume: in a second run of
\* process_directory over the same directory no file that the first run
\* renamed is given to process_file, that is extracted and renamed, again.
C14_RenamedFilesSkippedOnRerun ==
    (run_no = 2 /\ last.called) => last.file \notin first_renamed


(***************************************************************************)
(* ocr_gui.OcrWorker.run                                                   *)
(***************************************************************************)

\* `time.sleep(1)` between files, in seconds
PACING_DELAY == 1

\* lines 195-200: the names glob finds for "*" + ext.lower() and
\* "*" + ext.upper(), hidden names left out; the tail is ext.upper() when it
\* lowers to ext and holds no lower case letter
GlobSupported(d) ==
    {n \in DOMAIN d :
        /\ n[1] # "."
        /\ \E ext \in SUPPORTED_EXTENSIONS :
              /\ Len(n) >= Len(ext)
              /\ LET tail == SubSeq(n, Len(n) - Len(ext) + 1, Len(n))
                 IN  \/ tail = ext
                     \/ /\ Lower(tail) = ext
                        /\ \A i \in 1..Len(tail) : ~IsLowerAlpha(tail[i])}

OcrOutputSuffix == <<"_", "o", "c", "r", "_", "o", "u", "t", "p", "u", "t", ".", "t", "x", "t">>

ExtractedInfoSuffix == <<"_", "e", "x", "t", "r", "a", "c", "t", "e", "d", "_", "i", "n", "f", "o", ".", "j", "s", "o", "n">>

StablePdf == <<"2", "3", "0", "5", "1", "6", "_", "C", "a", "f", "e", "_", "5", "_", "K", "R", "W", ".", "p", "d", "f">>

\* the receipts an input directory of the worker may hold
RunCandidates ==
    { [name |-> APdf, doc |-> 2, form |-> "pdf"],
      [name |-> StablePdf, doc |-> 6, form |-> "pdf"],
      [name |-> RateLimitPdf, doc |-> 7, form |-> "pdf"] }

MaxRunFiles == 2

\* what output_dir may hold when the run starts
RunOutputs ==
    { {},
      {Stem(APdf) \o ExtractedInfoSuffix},
      {Stem(StablePdf) \o TxtExt, Stem(StablePdf) \o JsonExt} }

\* the worker as OcrWorker.__init__ leaves it, before run is entered
RunInit ==
    /\ \E S \in SUBSET RunCandidates :
         /\ Cardinality(S) <= MaxRunFiles
         /\ fs = DirOf(S)
    /\ rename_files \in BOOLEAN
    /\ force_process \in BOOLEAN
    /\ out \in RunOutputs
    /\ same_dir \in BOOLEAN
    /\ input_files = <<>>
    /\ run_i = 1
    /\ run_pc = "start"
    /\ processed = 0
    /\ complete_signal = "none"
    /\ stopped_reported = FALSE
    /\ reports = {}
    /\ starts = 0
    /\ pace = 0
    /\ stop_after = -1
    /\ platform = "posix"
    /\ tmp = {}
    /\ tmp_exists = FALSE
    /\ files = <<>>
    /\ idx = 1
    /\ pc = "worker"
    /\ processed_files = <<>>
    /\ failed_files = <<>>
    /\ fs0 = fs
    /\ skipped = <<>>
    /\ conv_clobbered = {}
    /\ clobbered = {}
    /\ last = NoCall
    /\ RetryIdle
    /\ NameIdle
    /\ FirstRun

\* what a step of run outside perform_ocr_with_retry leaves alone
UnchangedByRun ==
    UNCHANGED <<tmp, tmp_exists, platform, files, idx, pc, processed_files,
                failed_files, fs0, skipped, conv_clobbered, clobbered, last,
                nameVars, resumeVars, rename_files, force_process, is_running,
                stop_after, same_dir>>

\* the call's locals are not touched
NoCallStep ==
    UNCHANGED <<rfile, max_retries, retries, wait_time, polls_left, result,
                attempts, last_fail, retry_of, rl_run, paths_seen, waited_rl,
                stop_in_wait, since_stop, attempts_at_stop, result_dict>>

\* the locals of perform_ocr_with_retry as a call begins (at = "while") and
\* when the call is over and they are gone (at = "idle")
CallLocals(file, limit, at) ==
    /\ rfile' = file
    /\ max_retries' = limit
    /\ retries' = 0
    /\ rpc' = at
    /\ wait_time' = 0
    /\ polls_left' = 0
    /\ result' = "pending"
    /\ attempts' = 0
    /\ last_fail' = "none"
    /\ retry_of' = "none"
    /\ rl_run' = 0
    /\ paths_seen' = {}
    /\ waited_rl' = 0
    /\ stop_in_wait' = FALSE
    /\ since_stop' = 0
    /\ attempts_at_stop' = 0
    /\ result_dict' = NoInfo

\* `continue`: the loop goes to the next file
Continue ==
    /\ run_i' = run_i + 1
    /\ run_pc' = "head"

\* the names a save writes before it ends or raises
Saved(text_name, json_name, save) ==
    CASE save = "ok"        -> {text_name, json_name}
      [] save = "json_fail" -> {text_name}
      [] save = "txt_fail"  -> {}

\* lines 189-212: the files are listed
RunStart ==
    /\ run_pc = "start"
    /\ \E order \in [1..Cardinality(GlobSupported(fs)) -> GlobSupported(fs)] :
         /\ \A i, j \in DOMAIN order : order[i] = order[j] => i = j
         /\ input_files' = order
    /\ IF GlobSupported(fs) = {}
       THEN /\ complete_signal' = "false"
            /\ run_pc' = "done"
       ELSE /\ run_pc' = "head"
            /\ UNCHANGED complete_signal
    /\ UNCHANGED <<fs, run_i, out, processed, stopped_reported, reports,
                   starts, pace, rpc>>
    /\ NoCallStep
    /\ UnchangedByRun

\* lines 215-238: the flag check, the first skip check, the first call
RunHead ==
    /\ run_pc = "head"
    /\ run_i <= Len(input_files)
    /\ LET file      == input_files[run_i]
           json_path == Stem(file) \o ExtractedInfoSuffix
       IN  IF ~is_running
           THEN /\ stopped_reported' = TRUE
                /\ complete_signal' = "false"
                /\ run_pc' = "done"
                /\ UNCHANGED <<run_i, processed, reports, starts, pace, rpc>>
                /\ NoCallStep
           ELSE IF json_path \in out /\ ~force_process
           THEN /\ reports' = {"skipped"}
                /\ starts' = 0
                /\ pace' = 0
                /\ processed' = processed + 1
                /\ Continue
                /\ UNCHANGED <<stopped_reported, complete_signal, rpc>>
                /\ NoCallStep
           ELSE /\ reports' = {}
                /\ starts' = 1
                /\ pace' = 0
                /\ run_pc' = "call1"
                /\ CallLocals(file, DEFAULT_MAX_RETRIES, "while")
                /\ UNCHANGED <<run_i, processed, stopped_reported,
                               complete_signal>>
    /\ UNCHANGED <<fs, input_files, out>>
    /\ UnchangedByRun

\* lines 242-284: the first call has returned
RunAfterCall1 ==
    /\ run_pc = "call1"
    /\ rpc = "returned"
    /\ LET file      == input_files[run_i]
           text_path == Stem(file) \o OcrOutputSuffix
           json_path == Stem(file) \o ExtractedInfoSuffix
       IN  IF result = "none"
           THEN /\ reports' = reports \cup {"failed"}
                /\ processed' = processed + 1
                /\ Continue
                /\ CallLocals(<<>>, 0, "idle")
                /\ UNCHANGED <<out, starts>>
           ELSE \E save \in {"ok", "txt_fail", "json_fail"} :
                /\ out' = out \cup Saved(text_path, json_path, save)
                /\ reports' = reports \cup
                       (IF save = "ok" THEN {"success"} ELSE {"save_error"})
                /\ IF /\ ~force_process
                      /\ Stem(file) \o TxtExt \in out'
                      /\ Stem(file) \o JsonExt \in out'
                   THEN /\ processed' = processed + 1
                        /\ Continue
                        /\ CallLocals(<<>>, 0, "idle")
                        /\ UNCHANGED starts
                   ELSE /\ starts' = starts + 1
                        /\ run_pc' = "call2"
                        /\ CallLocals(file, DEFAULT_MAX_RETRIES, "while")
                        /\ UNCHANGED <<run_i, processed>>
    /\ UNCHANGED <<fs, input_files, complete_signal, stopped_reported, pace>>
    /\ UnchangedByRun

\* lines 314-344: the rename into output_dir, every exception of it caught.
\* new_file_path is in output_dir, which is the input directory when the user
\* chose no other (lines 514-515): what exists there is removed first, and
\* the rename of a source that is no longer there raises and is caught.
RunRename(d, o, file) ==
    LET g     == generate_filename_from_info(result_dict, Stem(file))
        there == g.name \in o \/ (same_dir /\ g.name \in DOMAIN d)
        d1    == IF same_dir /\ there /\ g.name \in DOMAIN d
                 THEN FsRemove(d, g.name) ELSE d
        o1    == IF there THEN o \ {g.name} ELSE o
    IN  IF ~(rename_files /\ Truthy(result_dict.place)
                          /\ Truthy(result_dict.date))
        THEN [fs |-> d, out |-> o]
        ELSE IF g.raised \/ file \notin DOMAIN d
        THEN [fs |-> d, out |-> o]
        ELSE IF file \notin DOMAIN d1
        THEN [fs |-> d1, out |-> o1]
        ELSE IF same_dir
        THEN [fs |-> FsRename(d1, file, g.name), out |-> o1]
        ELSE [fs |-> FsRemove(d1, file), out |-> o1 \cup {g.name}]

\* lines 288-352: the second call has returned
RunAfterCall2 ==
    /\ run_pc = "call2"
    /\ rpc = "returned"
    /\ LET file      == input_files[run_i]
           text_path == Stem(file) \o TxtExt
           json_path == Stem(file) \o JsonExt
       IN  IF result = "none"
           THEN /\ reports' = reports \cup {"failed"}
                /\ processed' = processed + 1
                /\ Continue
                /\ UNCHANGED <<fs, out>>
           ELSE \E save \in {"ok", "txt_fail", "json_fail"} :
                LET o1 == out \cup Saved(text_path, json_path, save)
                    r  == IF save = "ok" THEN RunRename(fs, o1, file)
                          ELSE [fs |-> fs, out |-> o1]
                IN  /\ fs' = r.fs
                    /\ out' = r.out
                    /\ reports' = reports \cup
                         (IF save = "ok" THEN {"success"} ELSE {"save_error"})
                    /\ IF is_running
                       THEN /\ processed' = processed + 1
                            /\ run_pc' = "pace1"
                       ELSE /\ processed' = processed + 2
                            /\ run_pc' = "pace2"
                    /\ UNCHANGED run_i
    /\ CallLocals(<<>>, 0, "idle")
    /\ UNCHANGED <<input_files, complete_signal, stopped_reported, starts, pace>>
    /\ UnchangedByRun

\* lines 350-355: the first `time.sleep(1)` ends
Pace1End ==
    /\ run_pc = "pace1"
    /\ pace' = pace + PACING_DELAY * TICKS_PER_SECOND
    /\ processed' = processed + 1
    /\ run_pc' = "pace2"
    /\ UNCHANGED <<fs, input_files, run_i, out, complete_signal,
                   stopped_reported, reports, starts, rpc>>
    /\ NoCallStep
    /\ UnchangedByRun

\* lines 358-359: the second `time.sleep(1)` ends
Pace2End ==
    /\ run_pc = "pace2"
    /\ pace' = pace + PACING_DELAY * TICKS_PER_SECOND
    /\ Continue
    /\ UNCHANGED <<fs, input_files, out, processed, complete_signal,
                   stopped_reported, reports, starts, rpc>>
    /\ NoCallStep
    /\ UnchangedByRun

\* lines 361-365: the loop is over
RunFinal ==
    /\ run_pc = "head"
    /\ run_i > Len(input_files)
    /\ complete_signal' = IF is_running THEN "true" ELSE complete_signal
    /\ run_pc' = "done"
    /\ UNCHANGED <<fs, input_files, run_i, out, processed, stopped_reported,
                   reports, starts, pace, rpc>>
    /\ NoCallStep
    /\ UnchangedByRun

\* OcrWorker.stop, called from the GUI thread while the run is under way
RunStop ==
    /\ run_pc \notin {"idle", "done"}
    /\ rpc # "returned"
    /\ is_running
    /\ is_running' = FALSE
    /\ stop_after' = IF run_pc \in {"start", "head"} THEN run_i - 1 ELSE run_i
    /\ attempts_at_stop' = attempts
    /\ UNCHANGED <<stop_in_wait, since_stop>>
    /\ UNCHANGED <<fs, retries, rpc, wait_time, polls_left, result, attempts,
                   last_fail, retry_of, rl_run, paths_seen, waited_rl,
                   result_dict, rfile, max_retries>>
    /\ UNCHANGED <<tmp, tmp_exists, platform, files, idx, pc, processed_files,
                   failed_files, fs0, skipped, conv_clobbered, clobbered, last,
                   nameVars, resumeVars>>
    /\ UNCHANGED <<input_files, run_i, run_pc, rename_files, force_process,
                   out, same_dir, processed, complete_signal, stopped_reported,
                   reports, starts, pace>>

\* the failures of its surroundings that one call of the run meets
MaxRunFaults == 1

\* lines 95-96 within a run: TemporaryDirectory raises, a bounded number of times
RunTempDirRaises ==
    /\ retries < MaxRunFaults
    /\ TempDirRaises

\* lines 98-132 within a run: a bounded number of rate limit results
RunAttempt ==
    /\ Attempt
    /\ rpc' = "sleep60" => retries < MaxRunFaults

RunNext ==
    \/ RunStart
    \/ RunHead
    \/ RunAfterCall1
    \/ RunAfterCall2
    \/ Pace1End
    \/ Pace2End
    \/ RunFinal
    \/ RunStop
    \/ WhileExit
    \/ EnterAttempt
    \/ RunTempDirRaises
    \/ RunAttempt
    \/ Sleep60End
    \/ PollCheck
    \/ PollSleepEnd
    \/ Sleep1End

SpecRun == RunInit /\ [][RunNext]_vars


\* C11: cancellation only affects the next scheduling decision: under every
\* interleaving of stop() with run, after stop() at most the extraction
\* attempt whose flag check had already passed is carried out, no file after
\* the one in progress is started, and a run that ends after stop() has
\* reported that it was stopped (and sent complete_signal).
C11_StopOnlyAffectsNextStep ==
    stop_after # -1 =>
        /\ attempts <= attempts_at_stop + 1
        /\ run_i <= stop_after + 1
        /\ run_i = stop_after + 1 => run_pc \in {"start", "head", "done"}
        /\ run_pc = "done" =>
               /\ complete_signal = "false"
               /\ input_files # <<>> => stopped_reported

\* C27: every execution of OcrWorker.run ends with complete_signal emitted
\* exactly once, under every interleaving of stop() with the run, so that the
\* window's processingComplete runs and the Start button is enabled again.
\* Every emit in run is followed by its return, so a run that has ended has
\* emitted at most once; what is stated is that it has emitted at all.
C27_CompleteSignalOnEveryRun ==
    run_pc = "done" => complete_signal \in {"true", "false"}

\* C28: the rename step of OcrWorker.run never destroys the receipt: when the
\* derived filename equals the file's current name and output_dir is the
\* input directory, the file is left in place and not removed as a target
\* that was there before.  StablePdf is the file whose receipt gives its own
\* name; it is the only file of the run, and its document (6) stays in the
\* directory under some name.
C28_RenameKeepsReceipt ==
    (/\ same_dir
     /\ input_files = <<StablePdf>>) =>
        \E n \in DOMAIN fs : fs[n] = [doc |-> 6, form |-> "pdf"]

\* C12: when the next file is about to be started, the 1 second pacing delay
\* has been slept after the file before it, whether that one was processed
\* or failed.
C12_PacingAfterEveryFile ==
    (/\ run_pc = "head"
     /\ run_i > 1
     /\ run_i <= Len(input_files)
     /\ is_running
     /\ reports \cap {"success", "failed"} # {})
        => pace = PACING_DELAY * TICKS_PER_SECOND

\* C13: every input file gets exactly one terminal outcome: it is never
\* reported both as processed and as failed, perform_ocr_with_retry is
\* started for it once, and when the loop leaves the file one of processed,
\* skipped, failed has been reported.
C13_OneOutcomePerFile ==
    /\ starts <= 1
    /\ ~({"success", "failed"} \subseteq reports)
    /\ (run_pc = "head" /\ run_i > 1) =>
           Cardinality(reports \cap {"success", "skipped", "failed"}) <= 1

\* C18: with rename_files = False every file of the input directory stays
\* at its path under its name, with its content.
C18_NoRenameLeavesSource ==
    (run_pc # "idle" /\ ~rename_files) =>
        \A n \in DOMAIN fs0 : n \in DOMAIN fs /\ fs[n] = fs0[n]


(***************************************************************************)
(* From the provider's raw record to the filename: gemini_ocr and          *)
(* mistral_ocr (SpecProvider)                                              *)
(***************************************************************************)

\* mistral_ocr.extract_info_with_mistral, lines 472-541: what it makes of the
\* JSON object of the answer, in the year `year`; ok is FALSE when it
\* returns None
extract_info_with_mistral(raw, year) ==
    LET Get(v)    == DictGet(v, PyNone)
        Upper(s)  == [i \in 1..Len(s) |->
                        IF IsLowerAlpha(s[i]) THEN CodeOrder[Ord(s[i]) - 27]
                                              ELSE s[i]]
        Has(s, w) == Contains(s, w)
        \* lines 474-514
        digits    == SelectSeq(Format(Get(raw.date)), IsDigit)
        shownDate == Format(Get(raw.date))
        inked     == {i \in 1..Len(shownDate) : ~IsSpace(shownDate[i])}
        text      == IF inked = {} THEN <<>>
                     ELSE SubSeq(shownDate,
                              CHOOSE i \in inked : \A j \in inked : i <= j,
                              CHOOSE i \in inked : \A j \in inked : j <= i)
        yy        == ToInt(Prefix(digits, 2))
        century   == IF yy > year % 100 THEN (year \div 100) - 1
                                        ELSE year \div 100
        date      == IF ~Truthy(Get(raw.date)) THEN raw.date
                     ELSE IF text = <<>> \/ Lower(text) \in
                               {<<"n", "u", "l", "l">>, <<"n", "o", "n", "e">>}
                     THEN PyNone
                     ELSE IF digits = <<>> THEN PyNone
                     ELSE IF Len(digits) = 6
                     THEN PyStr(IntToStr(century) \o digits)
                     ELSE IF Len(digits) >= 8 THEN PyStr(Prefix(digits, 8))
                     ELSE PyNone
        \* lines 516-524
        number    == SelectSeq(Format(Get(raw.amount)),
                               LAMBDA c : IsDigit(c) \/ c = ".")
        dots      == {i \in 1..Len(number) : number[i] = "."}
        point     == IF dots = {} THEN Len(number) + 1
                     ELSE CHOOSE i \in dots : TRUE
        frac      == SubSeq(number, point + 1, Len(number))
        nonzero   == {i \in 1..Len(frac) : frac[i] # "0"}
        shown     == IF nonzero = {} THEN <<"0">>
                     ELSE SubSeq(frac, 1,
                              CHOOSE i \in nonzero : \A j \in nonzero : j <= i)
        amount    == IF ~Truthy(Get(raw.amount)) THEN raw.amount
                     ELSE IF Cardinality(dots) <= 1 /\ Len(number) > Cardinality(dots)
                     THEN PyFloat(ToInt(SubSeq(number, 1, point - 1)), shown)
                     ELSE raw.amount
        \* lines 526-541
        upper     == Upper(Get(raw.currency).s)
        currency  == IF ~Truthy(Get(raw.currency)) THEN <<"K", "R", "W">>
                     ELSE IF Has(upper, <<"K", "R">>) \/ Has(upper, <<"K", "O", "R">>)
                     THEN <<"K", "R", "W">>
                     ELSE IF Has(upper, <<"U", "S">>) THEN <<"U", "S", "D">>
                     ELSE IF Has(upper, <<"E", "U">>) THEN <<"E", "U", "R">>
                     ELSE IF Has(upper, <<"G", "B", "P">>) \/ Has(upper, <<"U", "K">>)
                     THEN <<"G", "B", "P">>
                     ELSE upper
    IN  IF Truthy(Get(raw.currency)) /\ Get(raw.currency).t # "str"
        THEN [ok |-> FALSE, info |-> NoInfo]
        ELSE [ok |-> TRUE,
              info |-> [date |-> date, place |-> raw.place, amount |-> amount,
                        currency |-> PyStr(currency)]]

\* mistral_ocr.generate_filename_from_info; stamp is the timestamp of its
\* fallback name
mistral_generate_filename_from_info(info, stem, stamp) ==
    LET date     == DictGet(info.date, PyStr(<<>>))
        place0   == DictGet(info.place, PyStr(<<>>))
        amount   == DictGet(info.amount, PyStr(<<>>))
        currency == DictGet(info.currency, PyStr(<<>>))
        place    == IF Truthy(place0) THEN CleanPlace(place0.s) ELSE <<>>
        datePart == IF Truthy(date) /\ date.t = "str" /\ Len(date.s) >= 8
                    THEN IF /\ Prefix(date.s, 2) \in {<<"1", "9">>, <<"2", "0">>}
                            /\ AllDigits(Prefix(date.s, 8))
                         THEN <<Slice(date.s, 2, 8)>>
                         ELSE <<Prefix(date.s, 8)>>
                    ELSE <<>>
        placePart == IF place # <<>> THEN <<place>> ELSE <<>>
        amountPart == IF amount.t # "none" /\ Truthy(currency)
                      THEN <<Format(amount) \o <<"_">> \o Format(currency)>>
                      ELSE IF amount.t # "none" THEN <<Format(amount)>>
                      ELSE <<>>
        parts    == datePart \o placePart \o amountPart
    IN  IF (Truthy(place0) /\ place0.t # "str") \/ parts = <<>>
        THEN stem \o <<"_">> \o stamp \o PdfExt
        ELSE JoinUnderscore(parts) \o PdfExt


\* process_file of the provider up to the derived filename: gemini_ocr.py
\* lines 372-396, mistral_ocr.py lines 270-284; failed when it returns None
provider_filename(provider, raw, stem, now) ==
    IF provider = "gemini"
    THEN LET info == FillInfo(raw)
             g    == generate_filename_from_info(info, stem)
         IN  [failed |-> g.raised, info |-> info, name |-> g.name]
    ELSE LET ex   == extract_info_with_mistral(raw, now.year)
             info == FillInfo(ex.info)
         IN  IF ~ex.ok THEN [failed |-> TRUE, info |-> NoInfo, name |-> <<>>]
             ELSE [failed |-> FALSE, info |-> info,
                   name |-> mistral_generate_filename_from_info(
                                info, stem, now.stamp)]

StarbucksGangnam == <<"S", "t", "a", "r", "b", "u", "c", "k", "s", " ", "G", "a", "n", "g", "n", "a", "m">>

LongPlace == <<"S", "t", "a", "r", "b", "u", "c", "k", "s", " ", "C", "o", "f", "f", "e", "e", ",", " ", "G", "a", "n", "g", "n", "a", "m", "-", "S", "t", "a", "t", "i", "o", "n", " ", "B", "r", ".", " ", "1", "2">>

\* the JSON objects a provider answers with
RawInfos ==
    { [date |-> d, place |-> p, amount |-> a, currency |-> c] :
        d \in { PyNone, PyAbsent, PyStr(<<" ">>), PyInt(20250101),
                PyStr(<<"2", "0", "2", "3", "-", "0", "5", "-", "1", "6">>),
                PyStr(<<"2", "0", "2", "5", "0", "1", "0", "1">>),
                PyStr(<<"2", "5", "0", "1", "0", "1">>),
                PyStr(<<"9", "9", "0", "1", "0", "1">>),
                PyStr(<<"1", "8", "9", "9", "1", "2", "3", "1">>),
                PyStr(<<"5", "/", "1", "6">>) },
        p \in { PyNone, PyStr(NA), PyStr(<<"n", "/", "a">>), PyInt(7),
                PyStr(StarbucksGangnam), PyStr(LongPlace), PyStr(<<"A", "_", " ", "/">>) },
        a \in { PyNone, PyInt(0), PyInt(6500),
                PyStr(<<"6", ",", "5", "0", "0">>), PyStr(<<"1", ".", "5", "0">>),
                PyStr(<<"1", ".", "2", ".", "3">>) },
        c \in { PyNone, PyStr(<<"K", "R", "W">>), PyStr(<<"u", "s", "d">>),
                PyInt(1) } }

\* one file, one provider, one raw record; now is datetime.now(): its year
\* and its strftime("%Y%m%d_%H%M%S")
ProviderInit ==
    /\ \E pr \in {"gemini", "mistral"}, raw \in RawInfos,
          now \in { [year |-> 2026, stamp |-> <<"2", "0", "2", "6", "1", "1", "0", "2", "_", "1", "0", "1", "5", "0", "0">>],
                    [year |-> 2099, stamp |-> <<"2", "0", "9", "9", "1", "2", "3", "1", "_", "2", "3", "5", "9", "5", "9">>] } :
         prov = [called |-> FALSE, provider |-> pr, raw |-> raw,
                 stem |-> <<"i", "n", "v", "o", "i", "c", "e", "_", "0", "0", "3">>,
                 now |-> now, failed |-> FALSE, info |-> NoInfo, name |-> <<>>]
    /\ gen = NoGen
    /\ batch = NoGen
    /\ ren = NoGen
    /\ platform = "posix"
    /\ fs = <<>>
    /\ tmp = {}
    /\ tmp_exists = FALSE
    /\ files = <<>>
    /\ idx = 1
    /\ pc = "name"
    /\ processed_files = <<>>
    /\ failed_files = <<>>
    /\ fs0 = <<>>
    /\ skipped = <<>>
    /\ conv_clobbered = {}
    /\ clobbered = {}
    /\ last = NoCall
    /\ RetryIdle
    /\ FirstRun
    /\ RunIdle

\* the provider's process_file derives the filename of one record
DeriveName ==
    /\ ~prov.called
    /\ \E r \in {provider_filename(prov.provider, prov.raw, prov.stem, prov.now)} :
         prov' = [prov EXCEPT !.called = TRUE, !.failed = r.failed,
                              !.info = r.info, !.name = r.name]
    /\ UNCHANGED <<gen, batch, ren, dirVars, retryVars, resumeVars, runVars>>

SpecProvider == ProviderInit /\ [][DeriveName]_vars


\* C21 (Scenario A): the raw record {date: "2023-05-16", place: "Starbucks
\* Gangnam", amount: "6,500", currency: "KRW"} is normalized to date 230516,
\* place Starbucks_Gangnam, amount 6500 (an integer), currency KRW, and the
\* derived filename is 230516_Starbucks_Gangnam_6500_KRW.pdf.
C21_ScenarioA ==
    (/\ prov.called
     /\ prov.raw = [date |-> PyStr(<<"2", "0", "2", "3", "-", "0", "5", "-", "1", "6">>),
                    place |-> PyStr(StarbucksGangnam),
                    amount |-> PyStr(<<"6", ",", "5", "0", "0">>),
                    currency |-> PyStr(<<"K", "R", "W">>)]) =>
        /\ ~prov.failed
        /\ prov.info.amount = PyInt(6500)
        /\ prov.info.currency = PyStr(<<"K", "R", "W">>)
        /\ prov.name = <<"2", "3", "0", "5", "1", "6", "_", "S", "t", "a", "r", "b", "u", "c", "k", "s", "_", "G", "a", "n", "g", "n", "a", "m", "_", "6", "5", "0", "0", "_", "K", "R", "W", ".", "p", "d", "f">>


\* C22 (Scenario B): when date, place, amount and currency are all null or
\* absent in the raw record, the derived filename is the fallback
\* <original stem>_receipt.pdf, whichever provider's path derives it.
C22_AllNullGivesStemReceipt ==
    (/\ prov.called
     /\ \A f \in {"date", "place", "amount", "currency"} :
            prov.raw[f].t \in {"none", "absent"}) =>
        /\ ~prov.failed
        /\ prov.name = prov.stem \o ReceiptSuffix \o PdfExt


\* C23: for every raw date string (in a record whose other fields no step
\* rejects) deriving the filename does not fail, and the date segment of the
\* filename, when the name has one, is exactly 6 digits, exactly 8 digits or
\* the sentinel NA.
C23_DateSegmentTotal ==
    (/\ prov.called
     /\ prov.raw.date.t = "str"
     /\ prov.raw.place.t \in {"str", "none"}
     /\ prov.raw.currency.t \in {"str", "none"}) =>
        /\ ~prov.failed
        /\ (/\ prov.provider = "gemini" \/ prov.info.date # PyStr(NA)
            /\ prov.name # prov.stem \o ReceiptSuffix \o PdfExt) =>
               LET ends == {i \in 1..Len(prov.name) : prov.name[i] \in {"_", "."}}
                   seg  == SubSeq(prov.name, 1,
                               (CHOOSE i \in ends : \A j \in ends : i <= j) - 1)
               IN  \/ seg = NA
                   \/ AllDigits(seg) /\ Len(seg) \in {6, 8}

\* C24: a date of 8 digits whose first four are a year in 1900..2099 gives
\* its last six digits as the date segment of the filename, and a date of 6
\* digits gives itself, in the gemini and in the mistral path.
C24_YearPrefixDropped ==
    (/\ prov.called
     /\ prov.raw.date.t = "str"
     /\ AllDigits(prov.raw.date.s)
     /\ \/ Len(prov.raw.date.s) = 6
        \/ /\ Len(prov.raw.date.s) = 8
           /\ ToInt(Prefix(prov.raw.date.s, 4)) \in 1900..2099
     /\ prov.raw.place.t \in {"str", "none"}
     /\ prov.raw.currency.t \in {"str", "none"}) =>
        /\ ~prov.failed
        /\ LET ends == {i \in 1..Len(prov.name) : prov.name[i] \in {"_", "."}}
               seg  == SubSeq(prov.name, 1,
                           (CHOOSE i \in ends : \A j \in ends : i <= j) - 1)
           IN  seg = IF Len(prov.raw.date.s) = 8
                     THEN SubSeq(prov.raw.date.s, 3, 8)
                     ELSE prov.raw.date.s

\* a 6-digit date went through the mistral path, which first makes it 8 digits
C24_Witness ==
    /\ prov.called
    /\ prov.provider = "mistral"
    /\ prov.raw.date = PyStr(<<"9", "9", "0", "1", "0", "1">>)
    /\ prov.info.date = PyStr(<<"1", "9", "9", "9", "0", "1", "0", "1">>)
    /\ StartsWith(prov.name, <<"9", "9", "0", "1", "0", "1", "_">>)

\* C25: place sanitization is idempotent and bounded: for every place string
\* the sanitized place, sanitized again, is the same string, it is at most
\* 30 characters long, and it is what the filename carries.
C25_PlaceSanitizeIdempotent ==
    (prov.called /\ prov.raw.place.t = "str") =>
        LET p == CleanPlace(prov.raw.place.s)
        IN  /\ CleanPlace(p) = p
            /\ Len(p) <= 30
            /\ (/\ ~prov.failed
                /\ p # <<>>
                /\ Lower(prov.raw.place.s) # <<"n", "a">>
                /\ Lower(p) # <<"n", "a">>) => Contains(prov.name, p)

\* a place with punctuation and blanks, longer than 30 characters, was cut
C25_Witness ==
    /\ prov.called
    /\ prov.raw.place = PyStr(LongPlace)
    /\ Len(CleanPlace(LongPlace)) = 30
    /\ Contains(prov.name, CleanPlace(LongPlace))
    /\ ~Contains(prov.name, <<",">>)


(***************************************************************************)
(* The directory run of the command-line tools: ocr.py process_directory   *)
(* and the directory part of namecard.py main (SpecBatch)                  *)
(***************************************************************************)

\* the most files the directory holds
MaxBatchFiles == 3

\* how the processing of one file can end: in ocr.py process_single_file
\* returns 0, returns non-zero or raises; in namecard.py the result is
\* written, the extraction gives nothing, the file is invalid, or a step
\* raises
BatchOutcomes(tool) ==
    IF tool = "ocr" THEN {"returned_0", "returned_1", "raised"}
    ELSE {"written", "no_result", "invalid", "raised"}

\* the globs have found n files; nothing is processed yet; rc is the value the
\* directory run returns, -1 while it runs
BatchInit ==
    /\ \E tool \in {"ocr", "namecard"}, n \in 0..MaxBatchFiles :
         batch = [tool |-> tool, input_files |-> n, done |-> <<>>,
                  success_count |-> 0, failure_count |-> 0, rc |-> -1]
    /\ gen = NoGen
    /\ prov = NoGen
    /\ ren = NoGen
    /\ platform = "posix"
    /\ fs = <<>>
    /\ tmp = {}
    /\ tmp_exists = FALSE
    /\ files = <<>>
    /\ idx = 1
    /\ pc = "name"
    /\ processed_files = <<>>
    /\ failed_files = <<>>
    /\ fs0 = <<>>
    /\ skipped = <<>>
    /\ conv_clobbered = {}
    /\ clobbered = {}
    /\ last = NoCall
    /\ RetryIdle
    /\ FirstRun
    /\ RunIdle

\* one round of the loop over input_files: the file is processed, and every
\* way it ends other than success, an exception included, is counted as a
\* failure and the loop goes on
BatchFile ==
    /\ batch.rc = -1
    /\ Len(batch.done) < batch.input_files
    /\ \E o \in BatchOutcomes(batch.tool) :
         batch' = [batch EXCEPT
             !.done = Append(@, o),
             !.success_count = IF o \in {"returned_0", "written"} THEN @ + 1 ELSE @,
             !.failure_count = IF o \in {"returned_0", "written"} THEN @ ELSE @ + 1]
    /\ UNCHANGED <<gen, prov, ren, dirVars, retryVars, resumeVars, runVars>>

\* the return of the directory run: 0 when no file was found; after the loop
\* 1 if failure_count > 0 and 0 otherwise; the tool exits with it
\* (sys.exit(main()))
BatchReturn ==
    /\ batch.rc = -1
    /\ Len(batch.done) = batch.input_files
    /\ batch' = [batch EXCEPT
           !.rc = IF batch.input_files = 0 THEN 0
                  ELSE IF batch.failure_count > 0 THEN 1 ELSE 0]
    /\ UNCHANGED <<gen, prov, ren, dirVars, retryVars, resumeVars, runVars>>

SpecBatch == BatchInit /\ [][BatchFile \/ BatchReturn]_vars

\* C26: a failed individual file never changes the exit status of a batch
\* run: the directory run returns the success status (0) whether or not some
\* files failed; failures show only in the summary counts.
C26_FailedFileKeepsSuccessStatus ==
    batch.rc # -1 => batch.rc = 0


(***************************************************************************)
(* rename_receipts.py: rename_receipt_files on one JSON file (SpecRename)  *)
(***************************************************************************)

\* clean_filename: "unknown" for a falsy text; blanks and the characters
\* <>:"/\|?* are removed; "unknown" when nothing is left
clean_filename(text) ==
    LET Kept(c) == c \notin {" ", "/"}
        cleaned == SelectSeq(text.s, Kept)
    IN  IF ~Truthy(text) \/ cleaned = <<>>
        THEN <<"u", "n", "k", "n", "o", "w", "n">>
        ELSE cleaned

\* format_date: "unknown_date" for a falsy date; the first of the seven
\* strptime formats that parses the string gives strftime("%m%d"); when none
\* does, the string without "/", "-" and "." is returned
format_date(date_str) ==
    LET Pad2(n) == IF n < 10 THEN <<"0">> \o IntToStr(n) ELSE IntToStr(n)
        DaysIn(y, m) ==
            IF m = 2
            THEN IF (y % 4 = 0 /\ y % 100 # 0) \/ y % 400 = 0 THEN 29 ELSE 28
            ELSE IF m \in {4, 6, 9, 11} THEN 30 ELSE 31
        \* the date of the fields y, m, d as "%m%d", <<>> when it is no date
        Date(y, m, d) ==
            IF y >= 1 /\ m \in 1..12 /\ d >= 1 /\ d <= DaysIn(y, m)
            THEN Pad2(m) \o Pad2(d)
            ELSE <<>>
        \* %Y is four digits, %m and %d one or two
        Checked(y, m, d) ==
            IF /\ AllDigits(y) /\ Len(y) = 4
               /\ AllDigits(m) /\ Len(m) <= 2
               /\ AllDigits(d) /\ Len(d) <= 2
            THEN Date(ToInt(y), ToInt(m), ToInt(d))
            ELSE <<>>
        \* the three fields of s around the separators at a and b
        Cut(s, a, b, yi, mi, di) ==
            LET f == <<SubSeq(s, 1, a - 1), SubSeq(s, a + 1, b - 1),
                       SubSeq(s, b + 1, Len(s))>>
            IN  Checked(f[yi], f[mi], f[di])
        \* strptime with the format whose separator is at the places `at`
        \* and whose year, month and day are the given fields
        Split(s, at, yi, mi, di) ==
            IF Cardinality(at) # 2 THEN <<>>
            ELSE Cut(s, CHOOSE i \in at : \A j \in at : i <= j,
                        CHOOSE i \in at : \A j \in at : j <= i, yi, mi, di)
        Parsed(s, sep, yi, mi, di) ==
            Split(s, {i \in 1..Len(s) : s[i] = sep}, yi, mi, di)
        Plain(c) == c \notin {"/", "-", "."}
        First(s, tries, hits) ==
            IF hits # {} THEN tries[CHOOSE i \in hits : \A j \in hits : i <= j]
            ELSE SelectSeq(s, Plain)
        Try(s, tries) == First(s, tries, {i \in 1..7 : tries[i] # <<>>})
        Formats(s) ==
            Try(s, << Parsed(s, "-", 1, 2, 3), Parsed(s, "/", 1, 2, 3),
                      Parsed(s, "/", 3, 1, 2), Parsed(s, "/", 3, 2, 1),
                      Parsed(s, ".", 1, 2, 3), Parsed(s, ".", 3, 1, 2),
                      Parsed(s, ".", 3, 2, 1) >>)
    IN  IF ~Truthy(date_str)
        THEN <<"u", "n", "k", "n", "o", "w", "n", "_", "d", "a", "t", "e">>
        ELSE Formats(date_str.s)

\* format_price: "0" for a falsy price; everything but digits and "." is
\* removed; "0" when nothing or only "." is left
format_price(price_str) ==
    LET Kept(c) == IsDigit(c) \/ c = "."
        cleaned == SelectSeq(price_str.s, Kept)
    IN  IF ~Truthy(price_str) \/ cleaned = <<>> \/ cleaned = <<".">>
        THEN <<"0">>
        ELSE cleaned

\* calculate_total_from_items: the sum of float(format_price(price)) over the
\* items that have a price, an item whose price is no float left out;
\* str(int(total)).  The sum is kept in hundredths: the prices of the model
\* have at most two decimals, and their sums are exact as floats.
calculate_total_from_items(items) ==
    LET Hundredths(price) ==
            LET p    == DictGet(price, PyStr(<<>>))
                c    == format_price(p)
                dots == {i \in 1..Len(c) : c[i] = "."}
            IN  IF ~Truthy(p) \/ Cardinality(dots) > 1 THEN 0
                ELSE IF dots = {} THEN 100 * ToInt(c)
                ELSE LET at   == CHOOSE i \in dots : TRUE
                         frac == Prefix(SubSeq(c, at + 1, Len(c)) \o <<"0", "0">>, 2)
                     IN  100 * ToInt(SubSeq(c, 1, at - 1)) + ToInt(frac)
        total[n \in 0..Len(items)] ==
            IF n = 0 THEN 0 ELSE total[n - 1] + Hundredths(items[n])
    IN  IntToStr(total[Len(items)] \div 100)

\* rename_receipt_files, one round of its loop: the JSON file base.json with
\* content data, in the directory d that holds both the JSON files and the
\* receipts.  The value is the directory afterwards.
rename_receipt_files(d, base, data) ==
    LET exts == << <<".", "p", "d", "f">>, <<".", "p", "n", "g">>,
                   <<".", "j", "p", "g">>, <<".", "j", "p", "e", "g">>,
                   <<".", "t", "i", "f">>, <<".", "t", "i", "f", "f">> >>
        payment_date == IF data.payment_date.t # "absent" THEN data.payment_date
                        ELSE IF data.info_date.t # "absent" THEN data.info_date
                        ELSE PyStr(<<>>)
        named        == IF data.store_name.t # "absent" THEN data.store_name
                        ELSE IF data.info_name.t # "absent" THEN data.info_name
                        ELSE PyStr(<<>>)
        store_name   == IF Truthy(named) THEN named ELSE PyStr(Stem(base))
        priced       == IF data.total_price.t # "absent" THEN data.total_price
                        ELSE IF data.info_total.t # "absent" THEN data.info_total
                        ELSE PyStr(<<>>)
        total_price  == IF ~Truthy(priced) /\ data.has_items /\ data.items # <<>>
                        THEN PyStr(calculate_total_from_items(data.items))
                        ELSE priced
        \* strptime, str.replace and re.sub raise on a value that is no string
        Raises(values) == \E v \in values : Truthy(v) /\ v.t # "str"
        \* one source file: the new name, or the alternative one when the new
        \* name is taken by another file; os.rename of a source that is no
        \* longer there raises, and the handler of the round ends the loop
        Move(now, source_file, new_path, alt_path) ==
            IF now.raised THEN now
            ELSE IF source_file \notin DOMAIN now.fs
            THEN [now EXCEPT !.raised = TRUE]
            ELSE IF new_path \in DOMAIN now.fs /\ source_file # new_path
            THEN [now EXCEPT !.fs = FsRename(@, source_file, alt_path)]
            ELSE [now EXCEPT !.fs = FsRename(@, source_file, new_path)]
        Named(now, source_file, file_ext, new_base) ==
            Move(now, source_file, new_base \o file_ext,
                 new_base \o <<"_">> \o Stem(source_file) \o file_ext)
        Moved(source_files, new_base) ==
            LET moved[n \in 0..Len(source_files)] ==
                    IF n = 0 THEN [fs |-> d, raised |-> FALSE]
                    ELSE Named(moved[n - 1], source_files[n],
                               Suffix(source_files[n]), new_base)
            IN  moved[Len(source_files)].fs
        Round(source_files, raises, formatted_date, formatted_store,
              formatted_price) ==
            IF source_files = <<>> THEN d
            ELSE IF data.kind # "dict" THEN d
            ELSE IF raises THEN d
            ELSE IF /\ formatted_date = <<"u", "n", "k", "n", "o", "w", "n", "_", "d", "a", "t", "e">>
                    /\ formatted_store = <<"u", "n", "k", "n", "o", "w", "n">>
                    /\ formatted_price = <<"0">>
            THEN d
            ELSE Moved(source_files,
                       formatted_date \o <<"_">> \o formatted_store \o <<"_">>
                           \o formatted_price)
        Formatted(source_files, date, store, price) ==
            Round(source_files, Raises({date, store, price}),
                  format_date(date), clean_filename(store), format_price(price))
    IN  Formatted(SelectSeq([i \in 1..Len(exts) |-> base \o exts[i]],
                            LAMBDA n : n \in DOMAIN d),
                  payment_date, store_name, total_price)

\* the contents a JSON file of the directory may have: no JSON at all, a JSON
\* value that is no object, an object with some of the keys payment_date,
\* store_name, total_price and items, or one with payment_info.date,
\* store_info.name, payment_info.totalPrice and items in their place
ReceiptJsons ==
    { [kind |-> "dict", payment_date |-> pd, info_date |-> PyAbsent,
       store_name |-> sn, info_name |-> PyAbsent, total_price |-> tp,
       info_total |-> PyAbsent, has_items |-> its.has, items |-> its.list] :
        pd  \in { PyAbsent, PyNone, PyStr(<<>>),
                  PyStr(<<"2", "0", "2", "3", "-", "0", "5", "-", "1", "6">>),
                  PyStr(<<"5", "/", "6", "/", "2", "0", "2", "3">>),
                  PyStr(<<"2", "0", "2", "3", ".", "0", "2", ".", "3", "0">>) },
        sn  \in { PyAbsent, PyStr(<<>>), PyStr(<<"C", "a", "f", "e", " ", "A", "/", "B">>),
                  PyStr(<<"/">>) },
        tp  \in { PyAbsent, PyStr(<<>>), PyStr(<<"6", ",", "5", "0", "0">>),
                  PyStr(<<".">>), PyInt(6500) },
        its \in { [has |-> FALSE, list |-> <<>>], [has |-> TRUE, list |-> <<>>],
                  [has |-> TRUE, list |-> <<PyAbsent, PyStr(<<>>)>>],
                  [has |-> TRUE,
                   list |-> <<PyStr(<<"1", ".", "5", "0">>), PyStr(<<"2", ".", "7", "5">>),
                              PyStr(<<"1", ".", "2", ".", "3">>)>>] } }
    \cup
    { [kind |-> "dict", payment_date |-> PyAbsent, info_date |-> id,
       store_name |-> PyAbsent, info_name |-> inn, total_price |-> PyAbsent,
       info_total |-> it, has_items |-> has, items |-> <<>>] :
        id  \in { PyAbsent, PyStr(<<"1", "6", "/", "0", "5", "/", "2", "0", "2", "3">>) },
        inn \in { PyAbsent, PyStr(<<"C", "a", "f", "e">>) },
        it  \in { PyAbsent, PyStr(<<"1", "2", ".", "5", "0">>) },
        has \in BOOLEAN }
    \cup
    { [kind |-> k, payment_date |-> PyAbsent, info_date |-> PyAbsent,
       store_name |-> PyAbsent, info_name |-> PyAbsent, total_price |-> PyAbsent,
       info_total |-> PyAbsent, has_items |-> FALSE, items |-> <<>>] :
        k \in {"list", "invalid"} }

\* the directory before the run: base.json with one of the contents, the
\* receipts base.pdf and base.jpg, base.pdf alone or neither, and possibly a file that
\* already has the name a receipt without data would be given
RenInit ==
    /\ \E data \in ReceiptJsons,
          base \in {<<"r", "e", "c", "e", "i", "p", "t">>, <<" ">>},
          E \in { {}, {<<".", "p", "d", "f">>},
                   {<<".", "p", "d", "f">>, <<".", "j", "p", "g">>} },
          taken \in BOOLEAN :
         LET d == [n \in {base \o e : e \in E} \cup
                         (IF taken
                          THEN {<<"u", "n", "k", "n", "o", "w", "n", "_", "d", "a", "t", "e", "_", "r", "e", "c", "e", "i", "p", "t", "_", "0", ".", "p", "d", "f">>}
                          ELSE {}) |->
                     IF n = base \o <<".", "p", "d", "f">> THEN [doc |-> 1, form |-> "pdf"]
                     ELSE IF n = base \o <<".", "j", "p", "g">> THEN [doc |-> 2, form |-> "img"]
                     ELSE [doc |-> 3, form |-> "pdf"]]
         IN  ren = [done |-> FALSE, base |-> base, data |-> data,
                    before |-> d, fs |-> d]
    /\ gen = NoGen
    /\ prov = NoGen
    /\ batch = NoGen
    /\ platform = "posix"
    /\ fs = <<>>
    /\ tmp = {}
    /\ tmp_exists = FALSE
    /\ files = <<>>
    /\ idx = 1
    /\ pc = "name"
    /\ processed_files = <<>>
    /\ failed_files = <<>>
    /\ fs0 = <<>>
    /\ skipped = <<>>
    /\ conv_clobbered = {}
    /\ clobbered = {}
    /\ last = NoCall
    /\ RetryIdle
    /\ FirstRun
    /\ RunIdle

\* the round of the loop of rename_receipt_files for the JSON file
RenameJson ==
    /\ ~ren.done
    /\ ren' = [ren EXCEPT !.done = TRUE,
                          !.fs = rename_receipt_files(ren.fs, ren.base, ren.data)]
    /\ UNCHANGED <<gen, prov, batch, dirVars, retryVars, resumeVars, runVars>>

SpecRename == RenInit /\ [][RenameJson]_vars

\* C30: rename_receipt_files does not rename a source file when its JSON
\* gives no meaningful data: no payment date, no store name, no total price
\* and no item prices.  Such a file keeps its original name.
C30_NoDataNoRename ==
    (/\ ren.done
     /\ ren.data.kind = "dict"
     /\ \A v \in {ren.data.payment_date, ren.data.info_date,
                  ren.data.store_name, ren.data.info_name,
                  ren.data.total_price, ren.data.info_total} :
            ~Truthy(DictGet(v, PyNone))
     /\ \A i \in 1..Len(ren.data.items) :
            ~Truthy(DictGet(ren.data.items[i], PyNone))) =>
        \A n \in DOMAIN ren.before : n \in DOMAIN ren.fs

=============================================================================
